---------------------------- MODULE Spec2Model ----------------------------
(***************************************************************************)
(* PalBaseIQ: the voxel Base (pkg/types), the pathing Graph with its A*    *)
(* search (pkg/pathing) and the operations a caller runs on them.          *)
(*                                                                         *)
(* Items are Go pointers to Item: the model keeps a heap of Item objects   *)
(* and a Base's Items maps an ID to an address of that heap.  A Grid is    *)
(* allocated by NewBase and never shared, so it is kept by value.          *)
(***************************************************************************)
EXTENDS Integers, Sequences, FiniteSets, TLC

VARIABLES
    bases,      \* slot -> Base record, or NoBase while the slot is unset
    heap,       \* address -> Item object (the Item pointers reachable from a Base)
    ret,        \* what the last call returned: [err]
    graph,      \* the pathing Graph: [Base, Nodes, Edges]
    search,     \* the frame of the FindPath call in progress
    opt,        \* the frame of the OptimizePlacement call in progress
    rng,        \* the process-wide source of math/rand: [seed, drawn]
    peer        \* the frame of an OptimizePlacement call on another optimizer

vars == <<bases, heap, ret, graph, search, opt, rng, peer>>

(***************************************************************************)
(* Bounds of the model                                                     *)
(***************************************************************************)
\* dimensions of the Base of the specification Spec / SpecAlias
BaseW == 2
BaseH == 1
BaseD == 2
\* dimensions of the Base of the specification SpecGraph
GraphW == 2
GraphH == 2
GraphD == 2

Slots == {"orig", "clone"}
NoBase == [nil |-> TRUE]   \* a nil Base pointer
Nil == "nil"

(***************************************************************************)
(* pkg/types: Position, BoundingBox, Item                                  *)
(***************************************************************************)
Pos(x, y, z) == [X |-> x, Y |-> y, Z |-> z]
Box(w, h, d) == [Width |-> w, Height |-> h, Depth |-> d]

Volume(bb) == bb.Width * bb.Height * bb.Depth

abs(x) == IF x < 0 THEN -x ELSE x

PositionManhattanDistance(p, other) ==
    abs(p.X - other.X) + abs(p.Y - other.Y) + abs(p.Z - other.Z)

NewItem(id, type, pos, bounds, priority) ==
    [ID |-> id, Type |-> type, Position |-> pos, Bounds |-> bounds,
     Rotation |-> 0, Priority |-> priority]

\* The slice GetOccupiedPositions builds: x outermost, then y, then z.
ItemGetOccupiedPositions(i) ==
    [k \in 1..Volume(i.Bounds) |->
        LET n == k - 1
            z == n % i.Bounds.Depth
            y == (n \div i.Bounds.Depth) % i.Bounds.Height
            x == n \div (i.Bounds.Depth * i.Bounds.Height)
        IN  Pos(i.Position.X + x, i.Position.Y + y, i.Position.Z + z)]

SeqRange(s) == {s[k] : k \in DOMAIN s}

\* The int of Go, scaled from 64 bits to IntBits: the sums of Intersects wrap
\* at the ends of the range as the sums of the code do at the ends of int64.
IntBits == 16
MaxInt == 2 ^ (IntBits - 1) - 1
MinInt == -(2 ^ (IntBits - 1))

\* x + y in int arithmetic
IntAdd(x, y) == ((x + y - MinInt) % (2 ^ IntBits)) + MinInt

Intersects(i, other) ==
    /\ i.Position.X < IntAdd(other.Position.X, other.Bounds.Width)
    /\ IntAdd(i.Position.X, i.Bounds.Width) > other.Position.X
    /\ i.Position.Y < IntAdd(other.Position.Y, other.Bounds.Height)
    /\ IntAdd(i.Position.Y, i.Bounds.Height) > other.Position.Y
    /\ i.Position.Z < IntAdd(other.Position.Z, other.Bounds.Depth)
    /\ IntAdd(i.Position.Z, i.Bounds.Depth) > other.Position.Z

(***************************************************************************)
(* pkg/types: Base                                                         *)
(***************************************************************************)
Voxels(w, h, d) == {Pos(x, y, z) : x \in 0..(w-1), y \in 0..(h-1), z \in 0..(d-1)}

EmptyMap == [x \in {} |-> Nil]

NewBase(width, height, depth) ==
    [Width |-> width, Height |-> height, Depth |-> depth,
     Items |-> EmptyMap,
     Grid |-> [v \in Voxels(width, height, depth) |-> FALSE]]

IsPositionValid(b, pos) ==
    /\ pos.X >= 0 /\ pos.X < b.Width
    /\ pos.Y >= 0 /\ pos.Y < b.Height
    /\ pos.Z >= 0 /\ pos.Z < b.Depth

IsPositionOccupied(b, pos) ==
    IF ~IsPositionValid(b, pos) THEN TRUE ELSE b.Grid[pos]

\* a CanPlaceItem that tests the first position of the footprint only
CanPlaceItemBadFirstVoxel(b, item) ==
    ~IsPositionOccupied(b, ItemGetOccupiedPositions(item)[1])

CanPlaceItem(b, item) ==
    \A k \in DOMAIN ItemGetOccupiedPositions(item) :
        ~IsPositionOccupied(b, ItemGetOccupiedPositions(item)[k])

ErrCannotPlace == "cannot place item"
ErrNotFound == "item not found"
ErrPanic == "panic: index out of range"

\* Grid[x][y][z] = v for every position of the slice, in order
SetGrid(grid, positions, v) ==
    [p \in DOMAIN grid |-> IF p \in SeqRange(positions) THEN v ELSE grid[p]]

MapPut(m, k, v) == (k :> v) @@ m
MapDelete(m, k) == [x \in DOMAIN m \ {k} |-> m[x]]

\* b.PlaceItem(item), item the object at address a of heap h
PlaceItemBadNoCheck(b, h, a) ==
    [base |-> [b EXCEPT !.Grid = SetGrid(b.Grid,
                   SelectSeq(ItemGetOccupiedPositions(h[a]),
                             LAMBDA p : IsPositionValid(b, p)), TRUE),
                        !.Items = MapPut(b.Items, h[a].ID, a)],
     err |-> Nil]

PlaceItemOp(b, h, a) ==
    IF ~CanPlaceItem(b, h[a])
    THEN [base |-> b, err |-> ErrCannotPlace]
    ELSE [base |-> [b EXCEPT !.Grid = SetGrid(b.Grid, ItemGetOccupiedPositions(h[a]), TRUE),
                             !.Items = MapPut(b.Items, h[a].ID, a)],
          err |-> Nil]

\* The prefix of the slice written before Grid is indexed out of range
ValidPrefix(b, positions) ==
    LET bad == {k \in DOMAIN positions : ~IsPositionValid(b, positions[k])}
    IN  IF bad = {} THEN positions
        ELSE SubSeq(positions, 1, (CHOOSE k \in bad : \A j \in bad : k <= j) - 1)

RemoveItemBadKeepGrid(b, h, itemID) ==
    IF itemID \notin DOMAIN b.Items
    THEN [base |-> b, err |-> ErrNotFound]
    ELSE [base |-> [b EXCEPT !.Items = MapDelete(b.Items, itemID)], err |-> Nil]

\* a RemoveItem that clears the Grid and keeps the entry of Items
RemoveItemBadKeepEntry(b, h, itemID) ==
    IF itemID \notin DOMAIN b.Items
    THEN [base |-> b, err |-> ErrNotFound]
    ELSE [base |-> [b EXCEPT !.Grid = SetGrid(b.Grid,
                        SelectSeq(ItemGetOccupiedPositions(h[b.Items[itemID]]),
                                  LAMBDA p : IsPositionValid(b, p)), FALSE)],
          err |-> Nil]

\* b.RemoveItem(itemID)
RemoveItemOp(b, h, itemID) ==
    IF itemID \notin DOMAIN b.Items
    THEN [base |-> b, err |-> ErrNotFound]
    ELSE LET positions == ItemGetOccupiedPositions(h[b.Items[itemID]])
         IN  IF \E k \in DOMAIN positions : ~IsPositionValid(b, positions[k])
             THEN [base |-> [b EXCEPT !.Grid = SetGrid(b.Grid, ValidPrefix(b, positions), FALSE)],
                   err |-> ErrPanic]
             ELSE [base |-> [b EXCEPT !.Grid = SetGrid(b.Grid, positions, FALSE),
                                      !.Items = MapDelete(b.Items, itemID)],
                   err |-> Nil]

\* The scan of Base.GetFreePositions / GetOccupiedPositions: x, then y, then z
ScanOrder(b) ==
    [k \in 1..(b.Width * b.Height * b.Depth) |->
        LET n == k - 1
        IN  Pos(n \div (b.Depth * b.Height), (n \div b.Depth) % b.Height, n % b.Depth)]

GetFreePositions(b) == SelectSeq(ScanOrder(b), LAMBDA p : ~b.Grid[p])
BaseGetOccupiedPositions(b) == SelectSeq(ScanOrder(b), LAMBDA p : b.Grid[p])

(***************************************************************************)
(* The heap of Item objects                                                *)
(***************************************************************************)
Referenced(bs) ==
    UNION {{bs[s].Items[id] : id \in DOMAIN bs[s].Items} : s \in {t \in Slots : bs[t] # NoBase}}

\* Addresses: <<"new", slot, id, n>> for an object the caller constructs and
\* places in the Base of a slot, <<"copy", slot, id, 0>> for the object Clone
\* constructs for the Base of a slot.
\* The address of a newly constructed object: one that nothing will refer to
\* except, after a successful PlaceItem, bs[slot].Items[id].
Fresh(bs, slot, id) ==
    LET others == UNION {{bs[s].Items[i] : i \in {j \in DOMAIN bs[s].Items : <<s, j>> # <<slot, id>>}}
                         : s \in {t \in Slots : bs[t] # NoBase}}
        n == CHOOSE k \in 1..(Cardinality(others) + 1) :
                 /\ <<"new", slot, id, k>> \notin others
                 /\ \A j \in 1..(k-1) : <<"new", slot, id, j>> \in others
    IN  <<"new", slot, id, n>>

\* objects no Base refers to any more are dropped
Collect(h, bs) == [a \in DOMAIN h \cap Referenced(bs) |-> h[a]]

\* a copy that shares the Item objects of b
CloneBadShallow(b, h, slot) ==
    [base |-> [NewBase(b.Width, b.Height, b.Depth) EXCEPT !.Items = b.Items, !.Grid = b.Grid],
     heap |-> h]

\* b.Clone(): a new Grid and, for every item, a new Item object with the
\* fields copied.  
Clone(b, h, slot) ==
    [base |-> [NewBase(b.Width, b.Height, b.Depth) EXCEPT
                  !.Items = [id \in DOMAIN b.Items |-> <<"copy", slot, id, 0>>],
                  !.Grid = [v \in DOMAIN b.Grid |-> b.Grid[v]]],
     heap |-> [a \in DOMAIN h \cup {<<"copy", slot, id, 0>> : id \in DOMAIN b.Items} |->
                  IF a \in {<<"copy", slot, id, 0>> : id \in DOMAIN b.Items}
                  THEN LET item == h[b.Items[a[3]]]
                       IN  [ID |-> item.ID, Type |-> item.Type, Position |-> item.Position,
                            Bounds |-> item.Bounds, Rotation |-> item.Rotation,
                            Priority |-> item.Priority]
                  ELSE h[a]]]
(***************************************************************************)
(* pkg/pathing: costs.  A float64 cost is kept in fixed point, CostUnit    *)
(* units to 1.0; the irrational obstacle terms are rounded to the unit.    *)
(***************************************************************************)
CostUnit == 1000 * 1000
Inf == 2000 * CostUnit          \* math.Inf(1): above every cost of the model

\* the integer square root of n, known to lie in lo..hi
RECURSIVE Isqrt(_, _, _)
Isqrt(n, lo, hi) ==
    IF lo >= hi THEN lo
    ELSE LET mid == (lo + hi + 1) \div 2
         IN  IF mid * mid <= n THEN Isqrt(n, mid, hi) ELSE Isqrt(n, lo, mid - 1)

\* math.Sqrt(float64(n)), in CostUnit: exact for squares, the table for 2 and
\* 3, and three decimals beyond
SqrtUnits(n) ==
    CASE n = 0 -> 0
      [] n = 1 -> CostUnit
      [] n = 2 -> 1414214
      [] n = 3 -> 1732051
      [] n = 4 -> 2 * CostUnit
      [] OTHER -> 1000 * Isqrt(n * CostUnit, 2000, 46340)

\* Position.Distance
PositionDistance(p, other) ==
    SqrtUnits((p.X - other.X) * (p.X - other.X) + (p.Y - other.Y) * (p.Y - other.Y)
              + (p.Z - other.Z) * (p.Z - other.Z))

\* 0.1 / distance for a surrounding voxel at squared distance d2
ObstacleTerm(d2) ==
    CASE d2 = 1 -> 100000
      [] d2 = 2 -> 70711
      [] d2 = 3 -> 57735
      [] OTHER -> 0

RECURSIVE SumOver(_, _)
SumOver(S, f) ==
    IF S = {} THEN 0
    ELSE LET x == CHOOSE y \in S : TRUE IN f[x] + SumOver(S \ {x}, f)

Offsets == {Pos(dx, dy, dz) : dx \in -1..1, dy \in -1..1, dz \in -1..1}

\* g.CalculateObstaclePenalty(pos), b the Base of the graph
CalculateObstaclePenalty(b, pos) ==
    LET hit == {o \in Offsets :
                   LET checkPos == Pos(pos.X + o.X, pos.Y + o.Y, pos.Z + o.Z)
                   IN  IsPositionValid(b, checkPos) /\ IsPositionOccupied(b, checkPos)}
    IN  SumOver(hit, [o \in Offsets |-> ObstacleTerm(o.X * o.X + o.Y * o.Y + o.Z * o.Z)])

\* a CalculateEdgeCost without the factor for vertical movement
CalculateEdgeCostBadNoVertical(b, from, to) ==
    PositionDistance(from, to) + CalculateObstaclePenalty(b, to)

\* g.CalculateEdgeCost(from, to)
CalculateEdgeCost(b, from, to) ==
    LET d == PositionDistance(from, to)
        baseCost == IF from.Y # to.Y THEN (d * 3) \div 2 ELSE d
    IN  baseCost + CalculateObstaclePenalty(b, to)

\* a Manhattan distance that counts a vertical step twice
ManhattanDistanceBadVerticalTwice(from, to) ==
    CostUnit * (PositionManhattanDistance(from, to) + abs(from.Y - to.Y))

\* ManhattanDistance, the default Heuristic
ManhattanDistance(from, to) == CostUnit * PositionManhattanDistance(from, to)

(***************************************************************************)
(* pkg/pathing: Graph                                                      *)
(***************************************************************************)
\* EuclideanDistance, the other HeuristicFunction of the package
EuclideanDistance(from, to) == PositionDistance(from, to)

NewGraph(slot) ==
    [Base |-> slot, Nodes |-> EmptyMap, Edges |-> EmptyMap, Heuristic |-> "ManhattanDistance"]

\* g.Heuristic(from, to)
Heuristic(g, from, to) ==
    IF g.Heuristic = "ManhattanDistance" THEN ManhattanDistance(from, to)
    ELSE EuclideanDistance(from, to)

\* fmt.Sprintf("%d,%d,%d", pos.X, pos.Y, pos.Z)
GetNodeKey(pos) == ToString(pos.X) \o "," \o ToString(pos.Y) \o "," \o ToString(pos.Z)

NewNode(pos, cost) ==
    [Position |-> pos, Cost |-> cost, Priority |-> 0, Parent |-> Nil, Index |-> 0]

\* g.AddNode(pos)
AddNode(g, pos) ==
    IF GetNodeKey(pos) \in DOMAIN g.Nodes THEN g
    ELSE [g EXCEPT !.Nodes = MapPut(g.Nodes, GetNodeKey(pos), NewNode(pos, Inf))]

\* g.AddEdge(from, to, cost)
AddEdge(g, from, to, cost) ==
    LET g2 == AddNode(AddNode(g, from), to)
        fromKey == GetNodeKey(from)
        edge == [From |-> from, To |-> to, Cost |-> cost, Weight |-> cost]
        old == IF fromKey \in DOMAIN g2.Edges THEN g2.Edges[fromKey] ELSE <<>>
    IN  [g2 EXCEPT !.Edges = MapPut(g2.Edges, fromKey, Append(old, edge))]

\* up, down, left, right, forward, backward
Directions == <<Pos(0, 1, 0), Pos(0, -1, 0), Pos(-1, 0, 0), Pos(1, 0, 0), Pos(0, 0, -1), Pos(0, 0, 1)>>

GetNeighborsBadFiveDirections(g, b, pos) ==
    SelectSeq([k \in 1..5 |-> Pos(pos.X + Directions[k].X, pos.Y + Directions[k].Y,
                                  pos.Z + Directions[k].Z)],
              LAMBDA n : IsPositionValid(b, n) /\ ~IsPositionOccupied(b, n))

\* a GetNeighbors that takes what is free from the Nodes of the graph
GetNeighborsBadFromNodes(g, b, pos) ==
    SelectSeq([k \in DOMAIN Directions |->
                  Pos(pos.X + Directions[k].X, pos.Y + Directions[k].Y, pos.Z + Directions[k].Z)],
              LAMBDA n : IsPositionValid(b, n) /\ GetNodeKey(n) \in DOMAIN g.Nodes)

\* a GetNeighbors that takes occupied voxels too
GetNeighborsBadOccupiedToo(g, b, pos) ==
    SelectSeq([k \in DOMAIN Directions |->
                  Pos(pos.X + Directions[k].X, pos.Y + Directions[k].Y, pos.Z + Directions[k].Z)],
              LAMBDA n : IsPositionValid(b, n))

\* g.GetNeighbors(pos), b the Base of the graph: the occupancy b has now
GetNeighbors(g, b, pos) ==
    SelectSeq([k \in DOMAIN Directions |->
                  Pos(pos.X + Directions[k].X, pos.Y + Directions[k].Y, pos.Z + Directions[k].Z)],
              LAMBDA n : IsPositionValid(b, n) /\ ~IsPositionOccupied(b, n))

\* TRUE, and v is evaluated to find it: a loop that asks Strict of its
\* accumulator carries a value to its next round, not a pending expression
Strict(v) == v = v

\* for _, pos := range positions { g.AddNode(pos) }, from the k-th on
RECURSIVE AddNodes(_, _, _)
AddNodes(g, positions, k) ==
    IF k > Len(positions) THEN g
    ELSE LET g2 == AddNode(g, positions[k])
         IN  IF Strict(g2) THEN AddNodes(g2, positions, k + 1) ELSE g2

\* for _, neighbor := range neighbors { g.AddEdge(pos, neighbor, cost) }, from
\* the k-th on
RECURSIVE AddEdgesFrom(_, _, _, _, _)
AddEdgesFrom(g, b, pos, neighbors, k) ==
    IF k > Len(neighbors) THEN g
    ELSE LET g2 == AddEdge(g, pos, neighbors[k], CalculateEdgeCost(b, pos, neighbors[k]))
         IN  IF Strict(g2) THEN AddEdgesFrom(g2, b, pos, neighbors, k + 1) ELSE g2

\* for _, pos := range freePositions { the edges to GetNeighbors(pos) }, from
\* the k-th on
RECURSIVE AddAllEdges(_, _, _, _)
AddAllEdges(g, b, positions, k) ==
    IF k > Len(positions) THEN g
    ELSE LET g2 == AddEdgesFrom(g, b, positions[k], GetNeighbors(g, b, positions[k]), 1)
         IN  IF Strict(g2) THEN AddAllEdges(g2, b, positions, k + 1) ELSE g2

\* a BuildGraph that keeps the maps it had
BuildGraphBadNoClear(g, b) ==
    LET freePositions == GetFreePositions(b)
    IN  AddAllEdges(AddNodes(g, freePositions, 1), b, freePositions, 1)

\* g.BuildGraph(), b the Base of the graph
BuildGraph(g, b) ==
    LET cleared == [g EXCEPT !.Nodes = EmptyMap, !.Edges = EmptyMap]
        freePositions == GetFreePositions(b)
    IN  AddAllEdges(AddNodes(cleared, freePositions, 1), b, freePositions, 1)

(***************************************************************************)
(* pkg/pathing: PriorityQueue under container/heap.  q is a record with    *)
(* openSet, the slice of the queue as node keys (its entry i at i + 1),    *)
(* and allNodes, the Nodes the entries point to, by key.                   *)
(***************************************************************************)
At(q, i) == q.allNodes[q.openSet[i + 1]]

\* pq.Len()
PQLen(q) == Len(q.openSet)

LessBadGreater(q, i, j) == At(q, i).Priority > At(q, j).Priority

\* pq.Less(i, j)
Less(q, i, j) == At(q, i).Priority < At(q, j).Priority

\* pq.Swap(i, j)
Swap(q, i, j) ==
    LET ki == q.openSet[i + 1]
        kj == q.openSet[j + 1]
        swapped == [q EXCEPT !.openSet = [@ EXCEPT ![i + 1] = kj, ![j + 1] = ki]]
        first == [swapped EXCEPT !.allNodes[swapped.openSet[i + 1]].Index = i]
    IN  [first EXCEPT !.allNodes[swapped.openSet[j + 1]].Index = j]

\* pq.Push(node), node the Node under key
PQPush(q, key) ==
    [q EXCEPT !.allNodes[key].Index = Len(q.openSet), !.openSet = Append(@, key)]

\* pq.Pop(): the queue left and the key of the node returned
PQPop(q) ==
    LET n == Len(q.openSet)
        key == q.openSet[n]
    IN  [q |-> [q EXCEPT !.allNodes[key].Index = -1, !.openSet = SubSeq(@, 1, n - 1)],
         node |-> key]

\* heap.up(h, j); (j - 1) / 2 of Go rounds towards 0
RECURSIVE up(_, _)
up(q, j) ==
    LET i == IF j = 0 THEN 0 ELSE (j - 1) \div 2
    IN  IF i = j \/ ~Less(q, j, i) THEN q ELSE up(Swap(q, i, j), i)

\* the loop of heap.down(h, i0, n) from i on: the queue and the i it ends with
RECURSIVE downFrom(_, _, _)
downFrom(q, i, n) ==
    LET j1 == 2 * i + 1
        j2 == j1 + 1
        j == IF j2 < n /\ Less(q, j2, j1) THEN j2 ELSE j1
    IN  IF j1 >= n THEN [q |-> q, i |-> i]
        ELSE IF ~Less(q, j, i) THEN [q |-> q, i |-> i]
        ELSE downFrom(Swap(q, i, j), j, n)

\* heap.down(h, i0, n)
down(q, i0, n) ==
    LET r == downFrom(q, i0, n) IN [q |-> r.q, moved |-> r.i > i0]

\* heap.Push(h, node)
HeapPush(q, key) ==
    LET pushed == PQPush(q, key) IN up(pushed, PQLen(pushed) - 1)

\* heap.Pop(h)
HeapPop(q) ==
    LET n == PQLen(q) - 1 IN PQPop(down(Swap(q, 0, n), 0, n).q)

\* heap.Fix(h, i)
HeapFix(q, i) ==
    LET r == down(q, i, PQLen(q)) IN IF ~r.moved THEN up(r.q, i) ELSE r.q

(***************************************************************************)
(* pkg/pathing: FindPath                                                   *)
(***************************************************************************)
\* the nil Path pointer
NoPath == [nil |-> TRUE]

ErrInvalidPosition == "invalid start or end position"
ErrPositionOccupied == "start or end position is occupied"
ErrNoPathFound == "no path found"

FindPathCheckBadOccupiedFirst(b, start, end) ==
    IF IsPositionOccupied(b, start) \/ IsPositionOccupied(b, end) THEN ErrPositionOccupied
    ELSE IF ~IsPositionValid(b, start) \/ ~IsPositionValid(b, end) THEN ErrInvalidPosition
    ELSE Nil

\* the two checks FindPath opens with: the error returned, Nil for none
FindPathCheck(b, start, end) ==
    IF ~IsPositionValid(b, start) \/ ~IsPositionValid(b, end) THEN ErrInvalidPosition
    ELSE IF IsPositionOccupied(b, start) \/ IsPositionOccupied(b, end) THEN ErrPositionOccupied
    ELSE Nil

\* a body of the loop that pushes the neighbor whether or not it is known
RelaxNeighborBadAlwaysPush(s, g, b, current, neighborPos) ==
    LET neighborKey == GetNodeKey(neighborPos)
        cur == s.allNodes[current]
        tentativeCost == cur.Cost + CalculateEdgeCost(b, cur.Position, neighborPos)
        exists == neighborKey \in DOMAIN s.allNodes
        created == IF exists THEN s
                   ELSE [s EXCEPT !.allNodes = MapPut(@, neighborKey, NewNode(neighborPos, Inf))]
        improved == [created EXCEPT
                        !.allNodes[neighborKey].Parent = current,
                        !.allNodes[neighborKey].Cost = tentativeCost,
                        !.allNodes[neighborKey].Priority =
                            tentativeCost + Heuristic(g, neighborPos, s.end)]
    IN  IF neighborKey \in s.closedSet THEN s
        ELSE IF tentativeCost < created.allNodes[neighborKey].Cost
             THEN HeapPush(improved, neighborKey)
             ELSE created

\* the body of "for _, neighborPos := range neighbors" for one neighbor of the
\* node under key current; s is the search, b the Base of g
RelaxNeighbor(s, g, b, current, neighborPos) ==
    LET neighborKey == GetNodeKey(neighborPos)
        cur == s.allNodes[current]
        tentativeCost == cur.Cost + CalculateEdgeCost(b, cur.Position, neighborPos)
        exists == neighborKey \in DOMAIN s.allNodes
        created == IF exists THEN s
                   ELSE [s EXCEPT !.allNodes = MapPut(@, neighborKey, NewNode(neighborPos, Inf))]
        improved == [created EXCEPT
                        !.allNodes[neighborKey].Parent = current,
                        !.allNodes[neighborKey].Cost = tentativeCost,
                        !.allNodes[neighborKey].Priority =
                            tentativeCost + Heuristic(g, neighborPos, s.end)]
    IN  IF neighborKey \in s.closedSet THEN s
        ELSE IF tentativeCost < created.allNodes[neighborKey].Cost
             THEN IF ~exists THEN HeapPush(improved, neighborKey)
                  ELSE HeapFix(improved, improved.allNodes[neighborKey].Index)
             ELSE created

\* for _, neighborPos := range neighbors { ... }, from the k-th on
RECURSIVE RelaxNeighbors(_, _, _, _, _, _)
RelaxNeighbors(s, g, b, current, neighbors, k) ==
    IF k > Len(neighbors) THEN s
    ELSE LET s2 == RelaxNeighbor(s, g, b, current, neighbors[k])
         IN  IF Strict(s2) THEN RelaxNeighbors(s2, g, b, current, neighbors, k + 1) ELSE s2

\* the positions along Parent without the node that has no Parent
RECURSIVE PathToBadNoStart(_, _)
PathToBadNoStart(allNodes, key) ==
    IF allNodes[key].Parent = Nil THEN <<>>
    ELSE Append(PathToBadNoStart(allNodes, allNodes[key].Parent), allNodes[key].Position)

\* the positions from the start to the node under key, along Parent
RECURSIVE PathTo(_, _)
PathTo(allNodes, key) ==
    IF key = Nil THEN <<>>
    ELSE Append(PathTo(allNodes, allNodes[key].Parent), allNodes[key].Position)

\* the Distance and the Cost of positions[i-1..]: the sums of ReconstructPath
RECURSIVE PathDistance(_, _)
PathDistance(positions, i) ==
    IF i > Len(positions) THEN 0
    ELSE PositionDistance(positions[i - 1], positions[i]) + PathDistance(positions, i + 1)

RECURSIVE PathCost(_, _, _)
PathCost(b, positions, i) ==
    IF i > Len(positions) THEN 0
    ELSE CalculateEdgeCost(b, positions[i - 1], positions[i]) + PathCost(b, positions, i + 1)

\* a ReconstructPath that adds the obstacle penalty of the first position too
ReconstructPathBadCountsStart(allNodes, b, goalKey) ==
    LET positions == PathTo(allNodes, goalKey)
    IN  [Nodes |-> positions, Distance |-> PathDistance(positions, 2),
         Cost |-> PathCost(b, positions, 2) + CalculateObstaclePenalty(b, positions[1])]

\* g.ReconstructPath(goalNode), goalNode the node under goalKey
ReconstructPath(allNodes, b, goalKey) ==
    LET positions == PathTo(allNodes, goalKey)
    IN  [Nodes |-> positions, Distance |-> PathDistance(positions, 2),
         Cost |-> PathCost(b, positions, 2)]

\* FindPath up to its loop: the checks, the start node, the first heap.Push.
\* The start node is in allNodes from the Push on, where the code enters it
\* just after.
FindPathBegin(g, b, start, end) ==
    LET err == FindPathCheck(b, start, end)
        startKey == GetNodeKey(start)
        startNode == [NewNode(start, 0) EXCEPT !.Priority = Heuristic(g, start, end)]
        s0 == [pc |-> "loop", start |-> start, end |-> end, openSet |-> <<>>,
               closedSet |-> {}, allNodes |-> EmptyMap, path |-> NoPath, err |-> Nil]
    IN  IF err # Nil THEN [s0 EXCEPT !.pc = "done", !.err = err]
        ELSE HeapPush([s0 EXCEPT !.allNodes = (startKey :> startNode)], startKey)

\* a round that does not enter the node it popped in the closed set
FindPathRoundBadNoClose(s, g, b) ==
    IF PQLen(s) = 0 THEN [s EXCEPT !.pc = "done", !.err = ErrNoPathFound]
    ELSE LET round(popped) ==
                 IF popped.q.allNodes[popped.node].Position = s.end
                 THEN [popped.q EXCEPT !.pc = "done",
                                       !.path = ReconstructPath(popped.q.allNodes, b, popped.node)]
                 ELSE RelaxNeighbors(popped.q, g, b, popped.node,
                                     GetNeighbors(g, b, popped.q.allNodes[popped.node].Position), 1)
         IN  round(HeapPop(s))

\* one round of "for openSet.Len() > 0", or the return after the loop
FindPathRound(s, g, b) ==
    IF PQLen(s) = 0 THEN [s EXCEPT !.pc = "done", !.err = ErrNoPathFound]
    ELSE LET \* popped is what heap.Pop(openSet) gives: the node and the rest
             round(popped) ==
                 IF popped.q.allNodes[popped.node].Position = s.end
                 THEN [popped.q EXCEPT !.pc = "done",
                                       !.path = ReconstructPath(popped.q.allNodes, b, popped.node)]
                 ELSE RelaxNeighbors([popped.q EXCEPT !.closedSet = @ \cup {popped.node}], g, b,
                                     popped.node,
                                     GetNeighbors(g, b, popped.q.allNodes[popped.node].Position), 1)
         IN  round(HeapPop(s))

\* the rounds of the loop up to the return
RECURSIVE FindPathLoop(_, _, _)
FindPathLoop(s, g, b) ==
    IF s.pc = "done" THEN s
    ELSE LET rest(s2) == IF Strict(s2) THEN FindPathLoop(s2, g, b) ELSE s2
         IN  rest(FindPathRound(s, g, b))

\* what FindPath returns for the search s at its end: [path, err]
Answer(s) == [path |-> s.path, err |-> s.err]

\* g.FindPath(start, end) as its caller sees it
FindPath(g, b, start, end) == Answer(FindPathLoop(FindPathBegin(g, b, start, end), g, b))

IdleSearch == [pc |-> "idle"]

\* no OptimizePlacement call in progress
IdleOpt == [pc |-> "idle"]

\* The source the top-level functions of math/rand share, as far as a caller
\* can tell it apart: the seed of the last rand.Seed and the number of values
\* drawn since.  Before any rand.Seed the seed is none of the caller's.
Unseeded == [seed |-> 0, drawn |-> 0]

\* no second call of OptimizePlacement is in progress
IdlePeer == [pc |-> "idle"]

(***************************************************************************)
(* The calls of a caller on the Bases                                      *)
(***************************************************************************)
Running == ret.err # ErrPanic /\ search.pc = "idle"

IDs == {"a", "b"}

\* the positions a caller gives an item: every voxel and one outside the volume
CallerPositions(w, h, d) == Voxels(w, h, d) \cup {Pos(-1, 0, 0)}

\* the items a caller constructs for the Base of Spec
CallerItems ==
    {NewItem("a", "palbox", p, Box(1, 1, 1), 100) : p \in CallerPositions(BaseW, BaseH, BaseD)}
    \cup {NewItem("b", "pal_bed", p, Box(1, 1, 2), 90) : p \in CallerPositions(BaseW, BaseH, BaseD)}

\* item := &Item{...}; bases[slot].PlaceItem(item)
PlaceItem(slot, it) ==
    /\ Running
    /\ bases[slot] # NoBase
    /\ LET a == Fresh(bases, slot, it.ID)
           h1 == MapPut(heap, a, it)
           r == PlaceItemOp(bases[slot], h1, a)
           bs == [bases EXCEPT ![slot] = r.base]
       IN  /\ bases' = bs
           /\ heap' = IF r.err = Nil THEN Collect(h1, bs) ELSE heap
           /\ ret' = [err |-> r.err]
    /\ UNCHANGED <<graph, search, opt, rng, peer>>

\* bases[slot].RemoveItem(id)
RemoveItem(slot, id) ==
    /\ Running
    /\ bases[slot] # NoBase
    /\ LET r == RemoveItemOp(bases[slot], heap, id)
           bs == [bases EXCEPT ![slot] = r.base]
       IN  /\ bases' = bs
           /\ heap' = Collect(heap, bs)
           /\ ret' = [err |-> r.err]
    /\ UNCHANGED <<graph, search, opt, rng, peer>>

\* bases["clone"] = bases["orig"].Clone()
CloneBase ==
    /\ Running
    /\ LET r == Clone(bases["orig"], heap, "clone")
           bs == [bases EXCEPT !["clone"] = r.base]
       IN  /\ bases' = bs
           /\ heap' = Collect(r.heap, bs)
    /\ ret' = [err |-> Nil]
    /\ UNCHANGED <<graph, search, opt, rng, peer>>

\* bases[slot].Items[id].Position = p, through the pointer Items holds
SetPosition(slot, id, p) ==
    /\ Running
    /\ bases[slot] # NoBase
    /\ id \in DOMAIN bases[slot].Items
    /\ heap' = [heap EXCEPT ![bases[slot].Items[id]].Position = p]
    /\ ret' = [err |-> Nil]
    /\ UNCHANGED <<bases, graph, search, opt, rng, peer>>

\* g.BuildGraph().  The value returned to the caller is none; ret notes
\* whether the call before this one was a BuildGraph too.
BuildGraphCall ==
    /\ Running
    /\ ret' = [err |-> Nil, again |-> "again" \in DOMAIN ret]
    /\ UNCHANGED <<bases, heap, search, opt, rng, peer>>
    /\ graph' = BuildGraph(graph, bases[graph.Base])

\* the caller enters g.FindPath(start, end)
FindPathStart(start, end) ==
    /\ Running
    /\ search' = FindPathBegin(graph, bases[graph.Base], start, end)
    /\ UNCHANGED <<bases, heap, ret, graph, opt, rng, peer>>

\* one round of "for openSet.Len() > 0"
FindPathIterate ==
    /\ search.pc = "loop"
    /\ PQLen(search) > 0
    /\ search' = FindPathRound(search, graph, bases[graph.Base])
    /\ UNCHANGED <<bases, heap, ret, graph, opt, rng, peer>>

\* the loop ends with the open set empty
FindPathExhausted ==
    /\ search.pc = "loop"
    /\ PQLen(search) = 0
    /\ search' = FindPathRound(search, graph, bases[graph.Base])
    /\ UNCHANGED <<bases, heap, ret, graph, opt, rng, peer>>

\* FindPath returns to its caller
FindPathReturn ==
    /\ search.pc = "done"
    /\ search' = IdleSearch
    /\ ret' = [err |-> search.err]
    /\ UNCHANGED <<bases, heap, graph, opt, rng, peer>>

Init ==
    /\ bases = [s \in Slots |-> IF s = "orig" THEN NewBase(BaseW, BaseH, BaseD) ELSE NoBase]
    /\ heap = EmptyMap
    /\ ret = [err |-> Nil]
    /\ graph = NewGraph("orig")
    /\ search = IdleSearch
    /\ opt = IdleOpt
    /\ rng = Unseeded
    /\ peer = IdlePeer

Next ==
    \/ \E slot \in Slots, it \in CallerItems : PlaceItem(slot, it)
    \/ \E slot \in Slots, id \in IDs : RemoveItem(slot, id)
    \/ CloneBase

\* PlaceItem, RemoveItem and Clone on an original Base and its clone
Spec == Init /\ [][Next]_vars

\* the items a caller constructs in SpecAlias
AliasItems ==
    {NewItem("a", "palbox", p, Box(1, 1, 1), 100) : p \in CallerPositions(BaseW, BaseH, BaseD)}

NextAlias ==
    \/ \E slot \in Slots, it \in AliasItems : PlaceItem(slot, it)
    \/ \E slot \in Slots, id \in IDs : RemoveItem(slot, id)
    \/ CloneBase
    \/ \E slot \in Slots, id \in IDs, p \in CallerPositions(BaseW, BaseH, BaseD) :
          SetPosition(slot, id, p)

\* the same, and the caller also writes the Position of placed Items
SpecAlias == Init /\ [][NextAlias]_vars
(***************************************************************************)
(* Claims on the Base                                                      *)
(***************************************************************************)
LiveSlots == {s \in Slots : bases[s] # NoBase}

\* the voxels an item covers, from its Position and Bounds
Footprint(it) ==
    {Pos(it.Position.X + dx, it.Position.Y + dy, it.Position.Z + dz) :
        dx \in 0..(it.Bounds.Width - 1), dy \in 0..(it.Bounds.Height - 1),
        dz \in 0..(it.Bounds.Depth - 1)}

\* the Item stored under id in the Base of a slot
ItemOf(slot, id) == heap[bases[slot].Items[id]]

\* what a Base holds: its Grid and the Items, by value, under their IDs
View(bs, h, slot) ==
    IF bs[slot] = NoBase THEN NoBase
    ELSE [Grid |-> bs[slot].Grid,
          Items |-> [id \in DOMAIN bs[slot].Items |-> h[bs[slot].Items[id]]]]

\* C1: after any sequence of PlaceItem, RemoveItem and Clone calls (PlaceItem
\* of an ID already in Items included), a voxel is occupied in Grid if and
\* only if it lies in the footprint of some Item currently in Items.
C1_GridMatchesItems ==
    \A s \in LiveSlots : \A v \in DOMAIN bases[s].Grid :
        bases[s].Grid[v] <=> \E id \in DOMAIN bases[s].Items : v \in Footprint(ItemOf(s, id))

\* C2: PlaceItem(item) fails exactly when some footprint voxel is out of
\* bounds or already occupied, a failed PlaceItem leaves Grid and Items as they
\* were, and a successful one marks every footprint voxel occupied and stores
\* the item under its ID.
C2_PlaceItemAllOrNothing ==
    [][\A s \in Slots, it \in CallerItems :
          PlaceItem(s, it) =>
             LET fits == \A v \in Footprint(it) :
                            v \in DOMAIN bases[s].Grid /\ ~bases[s].Grid[v]
             IN  /\ (ret'.err # Nil) <=> ~fits
                 /\ ~fits => View(bases', heap', s) = View(bases, heap, s)
                 /\ fits => /\ \A v \in Footprint(it) : bases'[s].Grid[v]
                            /\ it.ID \in DOMAIN bases'[s].Items
                            /\ heap'[bases'[s].Items[it.ID]] = it]_vars

\* a PlaceItem has just failed on a Base that holds an item, and the Base
\* still has a free voxel
C2_Witness ==
    /\ ret.err = ErrCannotPlace
    /\ \E s \in LiveSlots : /\ DOMAIN bases[s].Items # {}
                            /\ \E v \in DOMAIN bases[s].Grid : ~bases[s].Grid[v]

\* the step is a call on the Base of slot s
CallOn(s) ==
    \/ \E it \in AliasItems : PlaceItem(s, it)
    \/ \E id \in IDs : RemoveItem(s, id)
    \/ \E id \in IDs, p \in CallerPositions(BaseW, BaseH, BaseD) : SetPosition(s, id, p)

\* C3: after Clone, a PlaceItem, a RemoveItem or a change of an Item's Position
\* on the clone leaves the original's Grid and Items unchanged, and any such
\* change on the original leaves the clone's unchanged.
C3_CloneIndependent ==
    [][/\ (bases["clone"] # NoBase /\ CallOn("clone"))
            => View(bases', heap', "orig") = View(bases, heap, "orig")
       /\ (bases["clone"] # NoBase /\ CallOn("orig"))
            => View(bases', heap', "clone") = View(bases, heap, "clone")]_vars

\* original and clone hold the same ID at different Positions
C3_Witness ==
    /\ bases["clone"] # NoBase
    /\ \E id \in DOMAIN bases["clone"].Items \cap DOMAIN bases["orig"].Items :
          ItemOf("clone", id).Position # ItemOf("orig", id).Position

\* C4: RemoveItem(id) with an id not in Items returns an error and leaves Grid
\* and Items unchanged; with an id in Items it clears exactly that item's
\* footprint voxels and deletes the id from Items.
C4_RemoveItemExact ==
    [][\A s \in Slots, id \in IDs :
          RemoveItem(s, id) =>
             IF id \notin DOMAIN bases[s].Items
             THEN /\ ret'.err # Nil
                  /\ View(bases', heap', s) = View(bases, heap, s)
             ELSE /\ ret'.err = Nil
                  /\ \A v \in DOMAIN bases[s].Grid :
                        bases'[s].Grid[v] =
                           (IF v \in Footprint(ItemOf(s, id)) THEN FALSE ELSE bases[s].Grid[v])
                  /\ View(bases', heap', s).Items =
                        [i \in DOMAIN bases[s].Items \ {id} |-> ItemOf(s, i)]]_vars

\* a RemoveItem of an unknown id has just failed on a Base that holds the
\* other item
C4_Witness ==
    /\ ret.err = ErrNotFound
    /\ \E s \in LiveSlots : DOMAIN bases[s].Items # {} /\ DOMAIN bases[s].Items # IDs
(***************************************************************************)
(* The Graph over a Base whose occupancy changes                           *)
(***************************************************************************)
GraphIDs == {"a", "b", "w"}

\* two single voxels and a slab across the volume
GraphItems ==
    {NewItem(id, "pal_bed", p, Box(1, 1, 1), 90) : id \in {"a", "b"}, p \in Voxels(GraphW, GraphH, GraphD)}
    \cup {NewItem("w", "outer_wall", p, Box(1, GraphH, GraphD), 10) : p \in Voxels(GraphW, GraphH, GraphD)}

InitGraph ==
    /\ bases = [s \in Slots |-> IF s = "orig" THEN NewBase(GraphW, GraphH, GraphD) ELSE NoBase]
    /\ heap = EmptyMap
    /\ ret = [err |-> Nil]
    /\ graph = NewGraph("orig")
    /\ search = IdleSearch
    /\ opt = IdleOpt
    /\ rng = Unseeded
    /\ peer = IdlePeer

\* the caller gives every item an ID of its own
NextGraph ==
    \/ \E it \in GraphItems : it.ID \notin DOMAIN bases["orig"].Items /\ PlaceItem("orig", it)
    \/ \E id \in GraphIDs : RemoveItem("orig", id)
    \/ BuildGraphCall

SpecGraph == InitGraph /\ [][NextGraph]_vars

\* the free voxels of a Base and the free voxels one unit step from v
FreeVoxels(b) == {v \in DOMAIN b.Grid : ~b.Grid[v]}
FreeNeighbours(b, v) == {u \in FreeVoxels(b) : PositionManhattanDistance(u, v) = 1}

EdgesOf(g, key) == IF key \in DOMAIN g.Edges THEN g.Edges[key] ELSE <<>>

\* Nodes and Edges of g are the free voxels of b and their unit steps
GraphMatches(g, b) ==
    /\ {g.Nodes[k].Position : k \in DOMAIN g.Nodes} = FreeVoxels(b)
    /\ Cardinality(DOMAIN g.Nodes) = Cardinality(FreeVoxels(b))
    /\ \A k \in DOMAIN g.Nodes : /\ GetNodeKey(g.Nodes[k].Position) = k
                                 /\ g.Nodes[k].Position \in FreeVoxels(b)
    /\ DOMAIN g.Edges \subseteq DOMAIN g.Nodes
    /\ \A k \in DOMAIN g.Nodes :
          LET v == g.Nodes[k].Position
              E == EdgesOf(g, k)
          IN  /\ \A i \in DOMAIN E : E[i].From = v /\ E[i].To \in FreeNeighbours(b, v)
              /\ \A u \in FreeNeighbours(b, v) : Cardinality({i \in DOMAIN E : E[i].To = u}) = 1
              /\ Len(E) = Cardinality(FreeNeighbours(b, v))

\* C8: after BuildGraph() the key set of Nodes is exactly the set of free
\* voxels, and the edges stored under a free voxel are exactly one edge to
\* each in-bounds free axis-aligned neighbour; a free voxel with no free
\* neighbour is a node with no edges.
C8_BuildGraphExact ==
    [][BuildGraphCall => GraphMatches(graph', bases'[graph'.Base])]_vars

\* the graph has just been built on a Base with a free voxel that has no free
\* neighbour: the voxel is a node and no edges are stored under it
C8_Witness ==
    /\ "again" \in DOMAIN ret
    /\ GraphMatches(graph, bases[graph.Base])
    /\ \E k \in DOMAIN graph.Nodes :
          /\ k \notin DOMAIN graph.Edges
          /\ FreeNeighbours(bases[graph.Base], graph.Nodes[k].Position) = {}

\* C9: BuildGraph() called twice in a row with no occupancy change in between
\* yields the same Nodes key set and the same Edges, with no duplicate edges.
C9_BuildGraphIdempotent ==
    [][(BuildGraphCall /\ "again" \in DOMAIN ret)
          => /\ DOMAIN graph'.Nodes = DOMAIN graph.Nodes
             /\ graph'.Edges = graph.Edges]_vars

\* the second of two BuildGraph calls in a row has returned, on a Base that
\* holds items and has edges
C9_Witness ==
    /\ "again" \in DOMAIN ret /\ ret.again
    /\ DOMAIN bases[graph.Base].Items # {}
    /\ DOMAIN graph.Edges # {}
(***************************************************************************)
(* SpecPath: a graph built on the empty Base and never again, as            *)
(* OptimizePlacement builds it, items placed and removed after, FindPath    *)
(* between any two positions                                                *)
(***************************************************************************)
PathW == 3
PathH == 2
PathD == 2

PathIDs == {"a", "w"}

\* a single voxel and a slab across the volume
PathItems ==
    {NewItem("a", "pal_bed", p, Box(1, 1, 1), 90) : p \in Voxels(PathW, PathH, PathD)}
    \cup {NewItem("w", "outer_wall", Pos(x, 0, 0), Box(1, PathH, PathD), 10) : x \in 0..(PathW - 1)}

InitPath ==
    /\ bases = [s \in Slots |-> IF s = "orig" THEN NewBase(PathW, PathH, PathD) ELSE NoBase]
    /\ heap = EmptyMap
    /\ ret = [err |-> Nil]
    /\ graph = BuildGraph(NewGraph("orig"), NewBase(PathW, PathH, PathD))
    /\ search = IdleSearch
    /\ opt = IdleOpt
    /\ rng = Unseeded
    /\ peer = IdlePeer

NextPath ==
    \/ \E it \in PathItems : it.ID \notin DOMAIN bases["orig"].Items /\ PlaceItem("orig", it)
    \/ \E id \in PathIDs : RemoveItem("orig", id)
    \/ \E start, end \in CallerPositions(PathW, PathH, PathD) : FindPathStart(start, end)
    \/ FindPathIterate
    \/ FindPathExhausted
    \/ FindPathReturn

SpecPath == InitPath /\ [][NextPath]_vars

\* the Base FindPath reads, and the search that has ended and not yet returned
PathBase == bases[graph.Base]
Done == search.pc = "done"

\* the cost of every unit step between free voxels of b, by CalculateEdgeCost
EdgeCosts(b) ==
    [e \in {e \in FreeVoxels(b) \X FreeVoxels(b) : PositionManhattanDistance(e[1], e[2]) = 1}
        |-> CalculateEdgeCost(b, e[1], e[2])]

Min(S) == CHOOSE x \in S : \A y \in S : x <= y

\* n rounds of relaxing every step: d[v] ends as the least summed cost of a
\* sequence of steps from the voxel that began with 0 to v, Inf where none is
RECURSIVE LeastCosts(_, _, _, _)
LeastCosts(b, costs, d, n) ==
    IF n = 0 THEN d
    ELSE LET d2 == [v \in DOMAIN d |->
                      Min({d[v]} \cup {d[u] + costs[<<u, v>>] :
                                          u \in {u \in FreeNeighbours(b, v) : d[u] < Inf}})]
         IN  IF Strict(d2) THEN LeastCosts(b, costs, d2, n - 1) ELSE d2

\* the minimum over all sequences of unit steps through free voxels from
\* start to end of the summed CalculateEdgeCost; Inf if there is none
MinCost(b, start, end) ==
    LET costs == EdgeCosts(b)
        d0 == [v \in FreeVoxels(b) |-> IF v = start THEN 0 ELSE Inf]
    IN  IF Strict(costs) /\ Strict(d0)
        THEN LeastCosts(b, costs, d0, Cardinality(FreeVoxels(b)))[end]
        ELSE Inf

\* the voxels reached from those of S by unit steps through free voxels of b
RECURSIVE ReachableFrom(_, _)
ReachableFrom(b, S) ==
    LET T == S \cup {u \in FreeVoxels(b) : \E v \in S : PositionManhattanDistance(u, v) = 1}
    IN  IF T = S THEN S ELSE ReachableFrom(b, T)

Reachable(b, start, end) == end \in ReachableFrom(b, {start})

\* nodes is a sequence of unit steps through free voxels of b from start to end
IsFreePath(b, nodes, start, end) ==
    /\ Len(nodes) >= 1
    /\ nodes[1] = start /\ nodes[Len(nodes)] = end
    /\ \A i \in DOMAIN nodes : nodes[i] \in FreeVoxels(b)
    /\ \A i \in 2..Len(nodes) : PositionManhattanDistance(nodes[i - 1], nodes[i]) = 1

\* C5: for any occupancy and any two valid, free positions connected through
\* free voxels, FindPath with the Manhattan heuristic returns a Path whose
\* Cost is the minimum, over all sequences of unit axis-aligned steps through
\* free voxels from start to end, of the summed CalculateEdgeCost.
C5_FindPathCostMinimal ==
    (/\ Done
     /\ FindPathCheck(PathBase, search.start, search.end) = Nil
     /\ Reachable(PathBase, search.start, search.end))
        => /\ search.err = Nil /\ search.path # NoPath
           /\ search.path.Cost = MinCost(PathBase, search.start, search.end)

\* FindPath has ended with a Path on a Base with both items placed, where
\* the least cost is above the Manhattan estimate and the Path has it
C5_Witness ==
    /\ Done /\ search.err = Nil /\ search.path # NoPath
    /\ DOMAIN PathBase.Items = PathIDs
    /\ Len(search.path.Nodes) >= 4
    /\ search.path.Cost > ManhattanDistance(search.start, search.end)
    /\ search.path.Cost = MinCost(PathBase, search.start, search.end)

\* the footprints of the items placed in b
Footprints(b) == UNION {Footprint(heap[b.Items[id]]) : id \in DOMAIN b.Items}

\* C6: FindPath returns the InvalidPosition error when start or end is out of
\* bounds, also when the other endpoint is occupied, and the PositionOccupied
\* error when both are in bounds and one lies in a placed item's footprint;
\* in both cases no path is returned.
C6_FindPathEndpointErrors ==
    Done =>
      /\ (~IsPositionValid(PathBase, search.start) \/ ~IsPositionValid(PathBase, search.end))
            => search.err = ErrInvalidPosition /\ search.path = NoPath
      /\ (/\ IsPositionValid(PathBase, search.start) /\ IsPositionValid(PathBase, search.end)
          /\ {search.start, search.end} \cap Footprints(PathBase) # {})
            => search.err = ErrPositionOccupied /\ search.path = NoPath

\* FindPath has ended with InvalidPosition for a start out of bounds and an
\* end inside the footprint of a placed item
C6_Witness ==
    /\ Done /\ search.err = ErrInvalidPosition
    /\ ~IsPositionValid(PathBase, search.start)
    /\ search.end \in Footprints(PathBase)

\* C7: for valid, free start and end FindPath returns a path if and only if
\* end is reachable from start by unit axis-aligned steps through free voxels
\* of the Base, the path being such a sequence of steps; otherwise it ends
\* with NoPathFound, the frontier empty.
C7_PathIffReachable ==
    (Done /\ FindPathCheck(PathBase, search.start, search.end) = Nil)
        => IF Reachable(PathBase, search.start, search.end)
           THEN /\ search.err = Nil /\ search.path # NoPath
                /\ IsFreePath(PathBase, search.path.Nodes, search.start, search.end)
           ELSE /\ search.err = ErrNoPathFound /\ search.path = NoPath
                /\ PQLen(search) = 0

\* FindPath has ended with NoPathFound between two valid free positions that
\* the placed items separate
C7_Witness ==
    /\ Done /\ search.err = ErrNoPathFound
    /\ FindPathCheck(PathBase, search.start, search.end) = Nil
    /\ ~Reachable(PathBase, search.start, search.end)
    /\ search.closedSet # {}

\* the occupancy the graph was built on, as its Nodes and Edges hold it, and
\* whether the Base has changed since
SnapshotFree == {graph.Nodes[k].Position : k \in DOMAIN graph.Nodes}
Stale == SnapshotFree # FreeVoxels(PathBase)

RECURSIVE SnapshotReachableFrom(_)
SnapshotReachableFrom(S) ==
    LET T == S \cup {u \in SnapshotFree :
                        \E v \in S : \E i \in DOMAIN EdgesOf(graph, GetNodeKey(v)) :
                            EdgesOf(graph, GetNodeKey(v))[i].To = u}
    IN  IF T = S THEN S ELSE SnapshotReachableFrom(T)

\* C10 as stated: with the Base changed since BuildGraph and no rebuild,
\* FindPath answers by the occupancy of the last BuildGraph, not by the
\* current one: a path exactly when the endpoints were free then and joined
\* by the edges built then.
C10_AnswersBySnapshot ==
    (Done /\ Stale /\ IsPositionValid(PathBase, search.start)
          /\ IsPositionValid(PathBase, search.end))
        => (search.err = Nil
              <=> /\ search.start \in SnapshotFree
                  /\ search.end \in SnapshotReachableFrom({search.start}))

\* C10 amended: with the Base changed since BuildGraph and no rebuild,
\* FindPath answers by the current occupancy of the Base: an endpoint occupied
\* now gives PositionOccupied, a path goes through voxels free now only, and
\* there is a path exactly when end is reachable through the voxels free now.
C10_AnswersByCurrentOccupancy ==
    (Done /\ Stale)
        => /\ search.err = Nil <=>
                /\ FindPathCheck(PathBase, search.start, search.end) = Nil
                /\ Reachable(PathBase, search.start, search.end)
           /\ search.err = Nil =>
                /\ \A i \in DOMAIN search.path.Nodes : search.path.Nodes[i] \in FreeVoxels(PathBase)
                /\ search.path.Cost = PathCost(PathBase, search.path.Nodes, 2)
           /\ (/\ IsPositionValid(PathBase, search.start) /\ IsPositionValid(PathBase, search.end)
               /\ {search.start, search.end} \cap FreeVoxels(PathBase) # {search.start, search.end})
                 => search.err = ErrPositionOccupied

\* FindPath has ended on a stale graph between two positions the graph holds
\* as joined nodes and the Base now separates
C10_Witness ==
    /\ Done /\ Stale
    /\ search.err = ErrNoPathFound
    /\ search.end \in SnapshotReachableFrom({search.start})

\* C11: in a Base with no occupied voxel, FindPath between any two valid
\* positions returns a Path whose Cost is |dx| + |dz| + 1.5 * |dy|: the
\* Manhattan distance when start and end have the same Y, the factor 1.5 on
\* exactly the vertical steps otherwise.
C11_EmptyBaseCost ==
    (/\ Done
     /\ FreeVoxels(PathBase) = DOMAIN PathBase.Grid
     /\ IsPositionValid(PathBase, search.start) /\ IsPositionValid(PathBase, search.end))
        => /\ search.err = Nil /\ search.path # NoPath
           /\ search.path.Cost =
                 CostUnit * (abs(search.start.X - search.end.X) + abs(search.start.Z - search.end.Z))
                 + (3 * CostUnit * abs(search.start.Y - search.end.Y)) \div 2

\* FindPath has ended on the empty Base between two positions that differ in
\* X, Y and Z, with a Path of three steps, one of them vertical
C11_Witness ==
    /\ Done /\ search.err = Nil /\ search.path # NoPath
    /\ FreeVoxels(PathBase) = DOMAIN PathBase.Grid
    /\ search.start.X # search.end.X /\ search.start.Y # search.end.Y
    /\ search.start.Z # search.end.Z
    /\ search.path.Cost = 3 * CostUnit + CostUnit \div 2

(***************************************************************************)
(* SpecHub: a flat Base with a hub item at its centre and a wall across,   *)
(* FindPath from the position of the hub to every voxel                    *)
(***************************************************************************)
HubW == 5
HubH == 1
HubD == 5

HubPosition == Pos(HubW \div 2, 0, HubD \div 2)

HubIDs == {"hub", "w"}

HubItems ==
    {NewItem("hub", "palbox", HubPosition, Box(1, 1, 1), 100)}
    \cup {NewItem("w", "outer_wall", Pos(x, 0, 0), Box(1, HubH, HubD), 10) : x \in 0..(HubW - 1)}

InitHub ==
    /\ bases = [s \in Slots |-> IF s = "orig" THEN NewBase(HubW, HubH, HubD) ELSE NoBase]
    /\ heap = EmptyMap
    /\ ret = [err |-> Nil]
    /\ graph = BuildGraph(NewGraph("orig"), NewBase(HubW, HubH, HubD))
    /\ search = IdleSearch
    /\ opt = IdleOpt
    /\ rng = Unseeded
    /\ peer = IdlePeer

NextHub ==
    \/ \E it \in HubItems : it.ID \notin DOMAIN bases["orig"].Items /\ PlaceItem("orig", it)
    \/ \E id \in HubIDs : RemoveItem("orig", id)
    \/ \E end \in Voxels(HubW, HubH, HubD) : FindPathStart(HubPosition, end)
    \/ FindPathIterate
    \/ FindPathExhausted
    \/ FindPathReturn

SpecHub == InitHub /\ [][NextHub]_vars

\* C12: in a 5x1x5 Base that is empty except for a 1x1x1 hub item placed at
\* (2,0,2), FindPath((2,0,2),(0,0,0)) succeeds and returns a path of Cost 4.0.
C12_HubPathCostFour ==
    (/\ Done
     /\ DOMAIN PathBase.Items = {"hub"}
     /\ heap[PathBase.Items["hub"]].Position = HubPosition
     /\ search.start = HubPosition /\ search.end = Pos(0, 0, 0))
        => /\ search.err = Nil /\ search.path # NoPath
           /\ search.path.Cost = CostUnit * PositionManhattanDistance(HubPosition, Pos(0, 0, 0))

(***************************************************************************)
(* pkg/optimizer: the scores.  A float64 score is a whole number of        *)
(* ScoreUnit units to 1.0; a weight of the Config in WeightUnit units to   *)
(* 1.0, so that a TotalScore is in ScoreUnit * WeightUnit units to 1.0.    *)
(* The result of every float64 operation is rounded to the nearest value   *)
(* of MantissaBits significant bits, ties to even, as IEEE 754 rounds it   *)
(* to 53 bits.                                                             *)
(***************************************************************************)
ScoreUnit == 1000
WeightUnit == 10
MantissaBits == 14

\* the weight of the last significant bit of a >= 0: the least power of two
\* g, from g on, that leaves a \div g within MantissaBits bits
RECURSIVE Granule(_, _)
Granule(a, g) == IF a \div g < 2 ^ MantissaBits THEN g ELSE Granule(a, 2 * g)

\* the float64 nearest to x
RoundFloat(x) ==
    LET nearest(a, g) ==
            IF 2 * (a % g) > g \/ (2 * (a % g) = g /\ (a \div g) % 2 = 1)
            THEN (a \div g + 1) * g
            ELSE (a \div g) * g
    IN  IF x < 0 THEN 0 - nearest(0 - x, Granule(0 - x, 1)) ELSE nearest(x, Granule(x, 1))

\* a + b in float64
FAdd(a, b) == RoundFloat(a + b)

\* What "for _, x := range m { score += term }" can leave in score, for
\* every score of accs it can start from: D holds the keys of m the loop adds
\* a term for.  The iteration order of a map is not defined, and a float64
\* sum depends on the order of its terms.
RECURSIVE SumsInAnyOrder(_, _, _)
SumsInAnyOrder(accs, D, term) ==
    IF D = {} THEN accs
    ELSE UNION {SumsInAnyOrder({FAdd(a, term[d]) : a \in accs}, D \ {d}, term) : d \in D}

\* the one member of a set of one member
Only(S) == CHOOSE x \in S : S = {x}

\* numerator / (1.0 + distance), distance in CostUnit units
Inverse(numerator, distance) ==
    RoundFloat((numerator * ScoreUnit * 1000) \div (1000 + distance \div (CostUnit \div 1000)))

\* po.getRelatedItemTypes(itemType): the keys of the map
getRelatedItemTypes(itemType) ==
    CASE itemType = "food_box" -> {"food_plot", "cooking_pot"}
      [] itemType = "food_plot" -> {"food_box", "cooking_pot"}
      [] itemType = "power_generator" -> {"accumulator", "workbench"}
      [] itemType = "workbench" -> {"power_generator", "storage"}
      [] itemType = "storage" -> {"workbench", "furnace"}
      [] OTHER -> {}

\* the IDs of the items of a Base that are of a type related to itemType
RelatedItems(b, h, itemType) ==
    {id \in DOMAIN b.Items : h[b.Items[id]].Type \in getRelatedItemTypes(itemType)}

\* po.evaluateProximityToRelatedItems(base, item), h the heap the Items of
\* base point into.  A sum of no more than two terms is the same in every
\* order; Only has no value for a Base whose map order the sum depends on.
evaluateProximityToRelatedItems(b, h, item) ==
    Only(SumsInAnyOrder({0}, RelatedItems(b, h, item.Type),
                        [id \in DOMAIN b.Items |->
                            Inverse(10, PositionDistance(item.Position,
                                                         h[b.Items[id]].Position))]))

\* po.calculateIsolationPenalty(base, item)
calculateIsolationPenalty(b, h, item) == 0

\* the penalty for one palbox, r what FindPath returned: 50.0 for an error,
\* path.Cost * 0.1 for a path
BlockingTerm(r) ==
    IF r.err # Nil THEN 50 * ScoreUnit
    ELSE RoundFloat(r.path.Cost \div (10 * (CostUnit \div ScoreUnit)))

\* po.calculateBlockingPenalty(base, item); g is po.Graph and gb the Base
\* po.Graph.Base points to
calculateBlockingPenalty(g, gb, b, h, item) ==
    Only(SumsInAnyOrder({0}, {id \in DOMAIN b.Items : h[b.Items[id]].Type = "palbox"},
                        [id \in DOMAIN b.Items |->
                            BlockingTerm(FindPath(g, gb, item.Position,
                                                  h[b.Items[id]].Position))]))

\* po.evaluatePathAccessibility(base, item)
evaluatePathAccessibility(g, gb, b, h, item) ==
    FAdd(FAdd(0, 0 - calculateIsolationPenalty(b, h, item)),
         0 - calculateBlockingPenalty(g, gb, b, h, item))

\* po.evaluateItemPosition(base, item)
evaluateItemPosition(g, gb, b, h, item) ==
    LET center == Pos(b.Width \div 2, 0, b.Depth \div 2)
        hub == IF item.Type = "palbox"
               THEN Inverse(100, PositionDistance(item.Position, center))
               ELSE 0
    IN  FAdd(FAdd(hub, evaluateProximityToRelatedItems(b, h, item)),
             evaluatePathAccessibility(g, gb, b, h, item))

\* a nil Position pointer
NoPosition == [nil |-> TRUE]

\* What "bestPosition = &pos" points to after the loop depends on the language
\* version the module is built with: one variable pos for the whole loop
\* (before Go 1.22), which the loop leaves at the last free position, or one
\* variable for every iteration (from Go 1.22).
LoopVarSemantics == {"perIteration", "perLoop"}

\* the index of the position the loop of findBestPosition keeps: the first of
\* the greatest score
FirstBest(admits, score) ==
    CHOOSE k \in admits : \A j \in admits : score[j] < score[k] \/ (score[j] = score[k] /\ k <= j)

\* the free positions, by index, that admit the item
Admitting(b, item, freePositions) ==
    {k \in DOMAIN freePositions : CanPlaceItem(b, [item EXCEPT !.Position = freePositions[k]])}

\* what findBestPosition returns for the scores of the admitting positions
PositionKept(freePositions, admits, best, loopvar) ==
    IF admits = {} THEN NoPosition
    ELSE IF loopvar = "perIteration" THEN freePositions[best]
    ELSE freePositions[Len(freePositions)]

\* po.findBestPosition(base, item): the loop keeps the first position of the
\* greatest score among those that admit the item
findBestPosition(g, gb, b, h, item, loopvar) ==
    PositionKept(GetFreePositions(b), Admitting(b, item, GetFreePositions(b)),
                 FirstBest(Admitting(b, item, GetFreePositions(b)),
                           [k \in Admitting(b, item, GetFreePositions(b)) |->
                               evaluateItemPosition(g, gb, b, h,
                                   [item EXCEPT !.Position = GetFreePositions(b)[k]])]),
                 loopvar)

MoveAndPlaceBadUnchecked(b, h, a, position) ==
    IF position = NoPosition THEN [base |-> b, heap |-> h]
    ELSE [base |-> PlaceItemBadNoCheck(b, [h EXCEPT ![a].Position = position], a).base,
          heap |-> [h EXCEPT ![a].Position = position]]

\* item.Position = *bestPosition; base.PlaceItem(item), for the item at
\* address a; the error of PlaceItem is dropped
MoveAndPlace(b, h, a, position) ==
    IF position = NoPosition THEN [base |-> b, heap |-> h]
    ELSE [base |-> PlaceItemOp(b, [h EXCEPT ![a].Position = position], a).base,
          heap |-> [h EXCEPT ![a].Position = position]]

\* po.placeItemsGreedy(base, items) from the k-th item on.  base is the Base
\* po.Graph.Base points to.
RECURSIVE placeItemsGreedy(_, _, _, _, _, _)
placeItemsGreedy(g, b, h, items, loopvar, k) ==
    IF k > Len(items) THEN [base |-> b, heap |-> h]
    ELSE LET rest(r) ==
                 IF Strict(r) THEN placeItemsGreedy(g, r.base, r.heap, items, loopvar, k + 1) ELSE r
         IN  rest(MoveAndPlace(b, h, items[k],
                               findBestPosition(g, b, b, h, h[items[k]], loopvar)))

WithoutError(r) == [base |-> r.base, heap |-> r.heap, err |-> Nil]

\* perturbPlacement after base.RemoveItem(item.ID) returned removed: the new
\* position and the move of the object at address a
PlaceAgain(g, gb, removed, h, a, loopvar) ==
    IF removed.err = ErrPanic
    THEN [base |-> removed.base, heap |-> h, err |-> ErrPanic]
    ELSE WithoutError(MoveAndPlace(removed.base, h, a,
                                   findBestPosition(g, gb, removed.base, h, h[a], loopvar)))

\* po.perturbPlacement(base, items) with rand.Intn(len(items)) = itemIndex - 1.
\* The error of RemoveItem is dropped; an index out of range in it ends the
\* call.
perturbPlacement(g, gb, b, h, items, itemIndex, loopvar) ==
    IF Len(items) = 0 THEN [base |-> b, heap |-> h, err |-> Nil]
    ELSE PlaceAgain(g, gb, RemoveItemOp(b, h, h[items[itemIndex]].ID), h,
                    items[itemIndex], loopvar)

\* the IDs of the palbox items of a Base
Palboxes(b, h) == {id \in DOMAIN b.Items : h[b.Items[id]].Type = "palbox"}

\* the term of one item, r what FindPath returned: 100 / (1 + path.Cost) for
\* a path, -50.0 for an error
PathTerm(r) == IF r.err = Nil THEN Inverse(100, r.path.Cost) ELSE 0 - 50 * ScoreUnit

\* The scores po.evaluatePathfinding(base, items) can return: its first loop
\* stops at the first palbox of the map, in an order that is not defined,
\* and its second loop adds the terms of the other items in map order.
evaluatePathfinding(g, gb, b, h) ==
    IF Palboxes(b, h) = {} THEN {0}
    ELSE UNION {SumsInAnyOrder({0}, DOMAIN b.Items \ {palboxID},
                               [id \in DOMAIN b.Items |->
                                   PathTerm(FindPath(g, gb, h[b.Items[palboxID]].Position,
                                                     h[b.Items[id]].Position))])
                : palboxID \in Palboxes(b, h)}

\* what the loops of po.evaluateEfficiency over the items of D can leave in
\* score, for every score of accs they can start from
RECURSIVE EfficiencySums(_, _, _, _)
EfficiencySums(accs, D, b, h) ==
    IF D = {} THEN accs
    ELSE UNION {EfficiencySums(
                    SumsInAnyOrder(accs, RelatedItems(b, h, h[b.Items[id]].Type) \ {id},
                                   [other \in DOMAIN b.Items |->
                                       Inverse(20, PositionDistance(h[b.Items[id]].Position,
                                                                    h[b.Items[other]].Position))]),
                    D \ {id}, b, h)
                : id \in D}

\* the scores po.evaluateEfficiency(base, items) can return
evaluateEfficiency(b, h) == EfficiencySums({0}, DOMAIN b.Items, b, h)

Max(S) == CHOOSE x \in S : \A y \in S : y <= x

evaluateCompactnessBadInclusive(b, h) ==
    LET covered == UNION {SeqRange(ItemGetOccupiedPositions(h[b.Items[id]])) : id \in DOMAIN b.Items}
        xs == {p.X : p \in covered}
        ys == {p.Y : p \in covered}
        zs == {p.Z : p \in covered}
        volume == (Max(xs) - Min(xs) + 1) * (Max(ys) - Min(ys) + 1) * (Max(zs) - Min(zs) + 1)
        totalItemVolume == SumOver(DOMAIN b.Items,
                                   [id \in DOMAIN b.Items |-> Volume(h[b.Items[id]].Bounds)])
    IN  IF covered = {} THEN 1
        ELSE IF volume > 0 THEN RoundFloat((totalItemVolume * ScoreUnit) \div volume)
        ELSE 0

\* po.evaluateCompactness(base).  With no voxel covered the extents stay at
\* +Inf and -Inf, the volume is -Inf * -Inf * -Inf = -Inf and the result 0.
evaluateCompactness(b, h) ==
    LET covered == UNION {SeqRange(ItemGetOccupiedPositions(h[b.Items[id]])) : id \in DOMAIN b.Items}
        xs == {p.X : p \in covered}
        ys == {p.Y : p \in covered}
        zs == {p.Z : p \in covered}
        volume == (Max(xs) - Min(xs)) * (Max(ys) - Min(ys)) * (Max(zs) - Min(zs))
        totalItemVolume == SumOver(DOMAIN b.Items,
                                   [id \in DOMAIN b.Items |-> Volume(h[b.Items[id]].Bounds)])
    IN  IF covered = {} THEN 0
        ELSE IF volume > 0 THEN RoundFloat((totalItemVolume * ScoreUnit) \div volume)
        ELSE 0

\* the PlacementScore of the three scores
PlacementScore(config, pathfindingScore, efficiencyScore, compactnessScore) ==
    [TotalScore |-> FAdd(FAdd(RoundFloat(config.PathfindingWeight * pathfindingScore),
                              RoundFloat(config.EfficiencyWeight * efficiencyScore)),
                         RoundFloat(config.CompactnessWeight * compactnessScore)),
     PathfindingScore |-> pathfindingScore,
     EfficiencyScore |-> efficiencyScore,
     CompactnessScore |-> compactnessScore,
     Details |-> [pathfinding |-> pathfindingScore, efficiency |-> efficiencyScore,
                  compactness |-> compactnessScore]]

\* the scores po.evaluatePlacement(base, items, config) can return
evaluatePlacement(g, gb, b, h, config) ==
    {PlacementScore(config, pathfindingScore, efficiencyScore, evaluateCompactness(b, h))
     : pathfindingScore \in evaluatePathfinding(g, gb, b, h),
       efficiencyScore \in evaluateEfficiency(b, h)}

shouldAcceptBadColdRejects(currentScore, candidateScore, temperature, below) ==
    temperature > 0 /\ (candidateScore >= currentScore \/ below)

\* po.shouldAccept(currentScore, candidateScore, temperature); below says
\* whether rand.Float64() came out below the probability, which lies strictly
\* between 0 and 1 for a negative delta and a positive temperature.  With
\* delta = 0 the probability is exp(0) = 1, above every rand.Float64(); with
\* temperature = 0 it is exp(-Inf) = 0 or exp(NaN), below none; with a
\* negative temperature it is at least 1.
shouldAccept(currentScore, candidateScore, temperature, below) ==
    IF candidateScore > currentScore THEN TRUE
    ELSE LET delta == candidateScore - currentScore
         IN  CASE temperature > 0 /\ delta = 0 -> TRUE
               [] temperature > 0 /\ delta < 0 -> below
               [] temperature = 0 -> FALSE
               [] OTHER -> TRUE

\* sort.Slice(items, by Priority, greater first), on a slice short enough for
\* the insertion sort of package sort: a is put behind the items of its
\* Priority or more
InsertByPriority(h, sorted, a) ==
    SelectSeq(sorted, LAMBDA x : h[x].Priority >= h[a].Priority)
    \o <<a>>
    \o SelectSeq(sorted, LAMBDA x : h[x].Priority < h[a].Priority)

RECURSIVE SortByPriority(_, _, _)
SortByPriority(h, items, k) ==
    IF k = 0 THEN <<>>
    ELSE InsertByPriority(h, SortByPriority(h, items, k - 1), items[k])

(***************************************************************************)
(* pkg/optimizer: OptimizePlacement                                        *)
(***************************************************************************)
\* units to 1.0 of a temperature and of a CoolingRate
TempUnit == 1000
RateUnit == 1000

\* the Bases of an OptimizePlacement call: po.Base, the Base po.Graph.Base
\* points to, optimizedBase, candidateBase and bestBase.  optimizedBase and
\* po.Graph.Base are one object up to the first accepted candidate; no step
\* after placeItemsGreedy writes to that object, so that the two slots hold
\* equal records as long as the code holds one object.
OptSlots == {"orig", "graph", "optimized", "candidate", "best"}

\* the address of the Item object the caller constructs for an entry of items
ItemAddress(item) == <<"new", "items", item.ID, 1>>

\* the objects a Base of bs or the slice items points to
OptCollect(h, bs, items) ==
    LET live == UNION {{bs[s].Items[id] : id \in DOMAIN bs[s].Items}
                       : s \in {t \in DOMAIN bs : bs[t] # NoBase}}
    IN  [a \in DOMAIN h \cap (live \cup SeqRange(items)) |-> h[a]]

CoolBadKeep(temperature, coolingRate) == temperature

\* temperature *= config.CoolingRate
Cool(temperature, coolingRate) == (temperature * coolingRate) \div RateUnit

PromoteBadEveryAccepted(accept, candidateScore, bestScore) == accept

\* whether the round replaces bestBase and bestScore: the candidate was
\* accepted and candidateScore.TotalScore > bestScore.TotalScore
Promote(accept, candidateScore, bestScore) ==
    accept /\ candidateScore.TotalScore > bestScore.TotalScore

\* the score of a call that has evaluated no candidate yet
NoScore == [nil |-> TRUE]

\* OptimizePlacement(items, config) up to its loop, on the optimizer of Base
\* b0 and Graph g0: the clone, BuildGraph, the sort, placeItemsGreedy, the
\* clone for bestBase and the first evaluatePlacement.  list holds the Item
\* objects the caller constructed; bestScores holds the scores
\* evaluatePlacement can return.
OptimizeBegin(b0, h0, g0, list, config, loopvar) ==
    LET h1 == [a \in DOMAIN h0 \cup {ItemAddress(list[k]) : k \in DOMAIN list} |->
                  IF \E k \in DOMAIN list : a = ItemAddress(list[k])
                  THEN list[CHOOSE k \in DOMAIN list : a = ItemAddress(list[k])]
                  ELSE h0[a]]
        \* sort.Slice(items, ...)
        sorted(h) == SortByPriority(h, [k \in DOMAIN list |-> ItemAddress(list[k])], Len(list))
        \* bestScore := po.evaluatePlacement(optimizedBase, items, config)
        scored(g, items, placed, best) ==
            [graphBase |-> placed.base, optimizedBase |-> placed.base, bestBase |-> best.base,
             heap |-> best.heap, graph |-> g, items |-> items,
             bestScores |-> evaluatePlacement(g, placed.base, placed.base, placed.heap, config)]
        \* bestBase := optimizedBase.Clone()
        placed(g, items, r) == scored(g, items, r, Clone(r.base, r.heap, "best"))
        \* po.placeItemsGreedy(optimizedBase, items)
        built(optimized, g, items) ==
            placed(g, items, placeItemsGreedy(g, optimized.base, optimized.heap, items, loopvar, 1))
        \* po.Graph.Base = optimizedBase; po.Graph.BuildGraph()
        cloned(optimized) ==
            built(optimized, BuildGraph([g0 EXCEPT !.Base = "graph"], optimized.base),
                  sorted(optimized.heap))
    IN  \* optimizedBase := po.Base.Clone()
        cloned(Clone(b0, h1, "optimized"))

\* The states in which OptimizePlacement(list, config) called with the Bases
\* bs, the heap h and the Graph g reaches its loop: one for each score
\* evaluatePlacement can return for the greedy layout.
OptimizeEnter(bs, h, g, list, config, loopvar) ==
    LET entered(r, bs2, bestScore) ==
            [bases |-> bs2,
             heap |-> OptCollect(r.heap, bs2, r.items),
             graph |-> r.graph,
             opt |-> [pc |-> "loop", items |-> r.items, config |-> config,
                      loopvar |-> loopvar, temperature |-> config.Temperature,
                      iteration |-> 0, broke |-> FALSE, bestScore |-> bestScore,
                      candidateScore |-> NoScore, accepted |-> FALSE,
                      promoted |-> FALSE]]
        enter(r) ==
            {entered(r, [bs EXCEPT !["graph"] = r.graphBase,
                                   !["optimized"] = r.optimizedBase,
                                   !["best"] = r.bestBase], bestScore)
             : bestScore \in r.bestScores}
    IN  enter(OptimizeBegin(bs["orig"], h, g, list, config, loopvar))

\* the source of math/rand after rand.Seed(seed)
Seed(r, seed) == [r EXCEPT !.seed = seed, !.drawn = 0]

\* the source of math/rand after n values were drawn from it
Drawn(r, n) == [r EXCEPT !.drawn = @ + n]

\* the caller enters po.OptimizePlacement(items, config)
OptimizeStart(list, config, loopvar) ==
    /\ opt.pc = "idle"
    /\ \E start \in OptimizeEnter(bases, heap, graph, list, config, loopvar) :
          /\ bases' = start.bases
          /\ heap' = start.heap
          /\ graph' = start.graph
          /\ opt' = start.opt
    /\ rng' = Seed(rng, config.RandomSeed)
    /\ UNCHANGED <<ret, search, peer>>

\* One round of the loop of OptimizePlacement on the Bases bs, the heap h,
\* the Graph g and the frame o: the clone, perturbPlacement with rand.Intn
\* giving itemIndex - 1, evaluatePlacement returning one of the scores it can
\* return, shouldAccept with rand.Float64 as below says, the cooling and the
\* test for the break.  The result is the set of states the round can end
\* in; draws is the number of values the round took from the source of
\* math/rand: one for rand.Intn with items present, and one for
\* rand.Float64 unless candidateScore > bestScore returned early.
OptimizeRound(bs, h, g, o, itemIndex, below) ==
    LET \* the end of the round: accept says what shouldAccept returned,
        \* promote whether the candidate is the new best, temperature is the
        \* cooled temperature
        ended(bs2, heap2, candidateScore, accept, promote, temperature) ==
            [bases |-> bs2,
             heap |-> OptCollect(heap2, bs2, o.items),
             opt |-> [o EXCEPT !.candidateScore = candidateScore,
                               !.accepted = accept,
                               !.promoted = promote,
                               !.bestScore = IF promote THEN candidateScore ELSE @,
                               !.temperature = temperature,
                               !.broke = temperature < o.config.MinTemperature,
                               !.iteration = IF temperature < o.config.MinTemperature
                                             THEN @ ELSE @ + 1],
             err |-> Nil,
             draws |-> (IF o.items = <<>> THEN 0 ELSE 1)
                       + (IF candidateScore.TotalScore > o.bestScore.TotalScore THEN 0 ELSE 1)]
        finish(perturbed, candidateScore, accept, promote, best, temperature) ==
            ended([bs EXCEPT !["candidate"] = perturbed.base,
                             !["optimized"] = IF accept THEN perturbed.base ELSE @,
                             !["best"] = IF promote THEN best.base ELSE @],
                  IF promote THEN best.heap ELSE perturbed.heap,
                  candidateScore, accept, promote, temperature)
        decide(perturbed, candidateScore, accept) ==
            finish(perturbed, candidateScore, accept,
                   Promote(accept, candidateScore, o.bestScore),
                   Clone(perturbed.base, perturbed.heap, "best"),
                   Cool(o.temperature, o.config.CoolingRate))
        evaluated(perturbed, candidateScore) ==
            decide(perturbed, candidateScore,
                   shouldAccept(o.bestScore.TotalScore, candidateScore.TotalScore,
                                o.temperature, below))
        perturbed(r) ==
            IF r.err = ErrPanic
            THEN {[bases |-> [bs EXCEPT !["candidate"] = r.base], heap |-> r.heap,
                   opt |-> [o EXCEPT !.pc = "panic"], err |-> ErrPanic, draws |-> 1]}
            ELSE {evaluated(r, candidateScore)
                  : candidateScore \in evaluatePlacement(g, bs["graph"], r.base, r.heap,
                                                         o.config)}
        cloned(candidate) ==
            perturbed(perturbPlacement(g, bs["graph"], candidate.base, candidate.heap,
                                       o.items, itemIndex, o.loopvar))
    IN  cloned(Clone(bs["optimized"], h, "candidate"))

\* whether the loop of OptimizePlacement enters another round
LoopContinues(o) == o.pc = "loop" /\ ~o.broke /\ o.iteration < o.config.MaxIterations

\* one round of the loop with the values of rand.Intn and rand.Float64 as
\* inputs of the step, whatever the source holds.  With no items rand.Intn is
\* not called and itemIndex is 1.
OptimizeIterate(itemIndex, below) ==
    /\ LoopContinues(opt)
    /\ itemIndex <= Len(opt.items) \/ (itemIndex = 1 /\ opt.items = <<>>)
    /\ \E round \in OptimizeRound(bases, heap, graph, opt, itemIndex, below) :
          /\ bases' = round.bases
          /\ heap' = round.heap
          /\ opt' = round.opt
          /\ ret' = IF round.err = Nil THEN ret ELSE [err |-> round.err]
          /\ rng' = Drawn(rng, round.draws)
    /\ UNCHANGED <<graph, search, peer>>

\* return bestBase, bestScore, nil: after the break, or with the loop
\* condition false
OptimizeReturn ==
    /\ opt.pc = "loop"
    /\ opt.broke \/ opt.iteration >= opt.config.MaxIterations
    /\ opt' = [opt EXCEPT !.pc = "returned"]
    /\ ret' = [err |-> Nil, base |-> "best", score |-> opt.bestScore]
    /\ UNCHANGED <<bases, heap, graph, search, rng, peer>>

\* dimensions of the Base of the specification SpecOpt
OptW == 3
OptH == 1
OptD == 2

\* an entry of items as the caller constructs it: the Position unset
Entry(id, type, bounds, priority) == NewItem(id, type, Pos(0, 0, 0), bounds, priority)

\* the item lists of SpecOpt: none; three related items that fill the Base;
\* a hub and a bed, out of order; items of more volume than the Base; two
\* hubs with two related items; three related items at three distances
OptItemLists ==
    {<<>>,
     <<Entry("box", "food_box", Box(2, 1, 1), 100), Entry("plot", "food_plot", Box(2, 1, 1), 99),
       Entry("pot", "cooking_pot", Box(1, 1, 1), 98)>>,
     <<Entry("bed", "pal_bed", Box(1, 1, 1), 90), Entry("hub", "palbox", Box(1, 1, 1), 100)>>,
     <<Entry("box", "food_box", Box(1, 1, 2), 100), Entry("plot", "food_plot", Box(2, 1, 2), 99),
       Entry("pot", "cooking_pot", Box(1, 1, 1), 98)>>,
     <<Entry("hub", "palbox", Box(1, 1, 1), 100), Entry("hub2", "palbox", Box(1, 1, 1), 99),
       Entry("box", "food_box", Box(1, 1, 1), 98), Entry("plot", "food_plot", Box(2, 1, 1), 97)>>,
     <<Entry("box", "food_box", Box(2, 1, 1), 100), Entry("pot", "cooking_pot", Box(1, 1, 2), 99),
       Entry("plot", "food_plot", Box(1, 1, 1), 98)>>}

\* the cooling schedules of SpecOpt: Temperature, CoolingRate, MinTemperature
OptSchedules ==
    {<<TempUnit, RateUnit \div 2, TempUnit \div 4>>,
     <<TempUnit, RateUnit, TempUnit \div 10>>,
     <<TempUnit \div 2, RateUnit, TempUnit>>,
     <<0, RateUnit, 0>>}

MaxIterationsBound == 3

\* the length of the longest list of OptItemLists
MaxItems == 4

\* the Configs of SpecOpt
OptConfigs ==
    {[MaxIterations |-> n, Temperature |-> s[1], CoolingRate |-> s[2], MinTemperature |-> s[3],
      RandomSeed |-> 1, PathfindingWeight |-> w[1], EfficiencyWeight |-> w[2],
      CompactnessWeight |-> w[3]]
     : n \in {0, MaxIterationsBound}, s \in OptSchedules,
       w \in {<<(4 * WeightUnit) \div 10, (3 * WeightUnit) \div 10, (3 * WeightUnit) \div 10>>,
              <<0, 0, WeightUnit>>}}

InitOpt ==
    /\ bases = [s \in OptSlots |-> IF s = "orig" THEN NewBase(OptW, OptH, OptD) ELSE NoBase]
    /\ heap = EmptyMap
    /\ ret = [err |-> Nil]
    /\ graph = NewGraph("orig")
    /\ search = IdleSearch
    /\ opt = IdleOpt
    /\ rng = Unseeded
    /\ peer = IdlePeer

NextOpt ==
    \/ \E list \in OptItemLists, config \in OptConfigs, loopvar \in LoopVarSemantics :
          OptimizeStart(list, config, loopvar)
    \/ \E itemIndex \in 1..MaxItems, below \in BOOLEAN : OptimizeIterate(itemIndex, below)
    \/ OptimizeReturn

\* one call of OptimizePlacement on the optimizer of an empty Base
SpecOpt == InitOpt /\ [][NextOpt]_vars

(***************************************************************************)
(* Claims on OptimizePlacement                                             *)
(***************************************************************************)
\* the Grid/Items invariant for the Base of a slot
GridMatchesItems(s) ==
    \A v \in DOMAIN bases[s].Grid :
        bases[s].Grid[v] <=> \E id \in DOMAIN bases[s].Items : v \in Footprint(ItemOf(s, id))

\* the Bases OptimizePlacement holds between two rounds of its loop
HeldSlots == {s \in {"optimized", "candidate", "best"} : bases[s] # NoBase}

\* C13: the Base OptimizePlacement returns and every Base it holds at an
\* iteration boundary (current layout, candidate, best so far) satisfy the
\* Grid/Items invariant: a voxel is occupied in Grid if and only if it is
\* covered by the footprint, at its recorded Position, of an Item in Items.
C13_OptimizerBasesConsistent ==
    opt.pc \in {"loop", "returned"} => \A s \in HeldSlots : GridMatchesItems(s)

\* C14: across the rounds of one OptimizePlacement run the recorded best
\* score never decreases, and bestBase and bestScore are replaced only by a
\* candidate whose TotalScore is strictly greater than the recorded best.
C14_BestOnlyImproves ==
    [][(opt.pc = "loop" /\ opt'.pc = "loop") =>
          /\ opt'.bestScore.TotalScore >= opt.bestScore.TotalScore
          /\ (opt'.bestScore # opt.bestScore
              \/ View(bases', heap', "best") # View(bases, heap, "best"))
                 => /\ opt'.candidateScore.TotalScore > opt.bestScore.TotalScore
                    /\ opt'.bestScore = opt'.candidateScore
                    /\ View(bases', heap', "best") = View(bases', heap', "candidate")]_vars

\* a round has just replaced bestBase and bestScore by its candidate
C14_Witness ==
    /\ opt.pc = "loop"
    /\ opt.promoted
    /\ opt.bestScore = opt.candidateScore
    /\ View(bases, heap, "best") = View(bases, heap, "candidate")

\* the rounds of the loop a call has run
IterationsRun == IF opt.broke THEN opt.iteration + 1 ELSE opt.iteration

C16_ReturnedScoreOrderFree ==
    opt.pc = "returned" =>
        evaluatePlacement(graph, bases["graph"], bases["best"], heap, opt.config) = {ret.score}


\* the items of the call that the Base of slot s does not hold
Unplaced(s) ==
    {k \in DOMAIN opt.items : heap[opt.items[k]].ID \notin DOMAIN bases[s].Items}

C18_NoItemsScoreZero ==
    (opt.pc = "returned" /\ opt.items = <<>>) =>
        /\ DOMAIN bases["best"].Items = {}
        /\ \A p \in DOMAIN bases["best"].Grid : ~bases["best"].Grid[p]
        /\ ret.score.PathfindingScore = 0
        /\ ret.score.EfficiencyScore = 0
        /\ ret.score.CompactnessScore = 0
        /\ ret.score.TotalScore = 0

\* a call with no items returned after its rounds, under a Config whose
\* compactness weight is not 0
C18_Witness ==
    /\ opt.pc = "returned" /\ opt.items = <<>>
    /\ IterationsRun = MaxIterationsBound
    /\ opt.config.CompactnessWeight > 0
    /\ ret.score.TotalScore = 0


\* whether the Bounds volumes of the items of the call sum to more than the
\* volume of po.Base
VolumeExceedsBase ==
    SumOver(DOMAIN opt.items, [k \in DOMAIN opt.items |-> Volume(heap[opt.items[k]].Bounds)])
        > bases["orig"].Width * bases["orig"].Height * bases["orig"].Depth

\* C19: when the volumes of the items sum to more than the volume of the
\* empty Base, the returned Base lacks at least one of the items, and every
\* item it lacks still has the Position (0,0,0) it was given.
C19_UnplacedStayAtOrigin ==
    (opt.pc = "returned" /\ VolumeExceedsBase) =>
        /\ Unplaced("best") # {}
        /\ \A k \in Unplaced("best") : heap[opt.items[k]].Position = Pos(0, 0, 0)


\* whether unit steps through free voxels of b lead from the item of ID from
\* to a voxel next to the item of ID to
FreeRoute(b, from, to) ==
    \E v \in ReachableFrom(b, Footprint(heap[b.Items[from]])) :
        \E w \in Footprint(heap[b.Items[to]]) : PositionManhattanDistance(v, w) = 1

\* C20: an item that free voxels connect to the hub counts as reachable and
\* adds 100 / (1 + path.Cost) > 0 to the pathfinding score: the score of a
\* returned Base that holds a hub and one other item, connected by free
\* voxels, is above 0.
C20_ConnectedItemScoresReachable ==
    (/\ opt.pc = "returned"
     /\ Cardinality(Palboxes(bases["best"], heap)) = 1
     /\ Cardinality(DOMAIN bases["best"].Items) = 2
     /\ \A hub \in Palboxes(bases["best"], heap) :
           \A id \in DOMAIN bases["best"].Items \ {hub} : FreeRoute(bases["best"], hub, id))
        => ret.score.PathfindingScore > 0


\* whether no two items of the Base of slot s cover a common voxel
NoOverlap(s) ==
    \A id1, id2 \in DOMAIN bases[s].Items :
        id1 # id2 => Footprint(ItemOf(s, id1)) \cap Footprint(ItemOf(s, id2)) = {}

\* the number of voxels of the axis-aligned box around the occupied voxels of
\* the Base of slot s
EnclosingVoxels(s) ==
    LET covered == {v \in DOMAIN bases[s].Grid : bases[s].Grid[v]}
    IN  (Max({p.X : p \in covered}) - Min({p.X : p \in covered}) + 1)
        * (Max({p.Y : p \in covered}) - Min({p.Y : p \in covered}) + 1)
        * (Max({p.Z : p \in covered}) - Min({p.Z : p \in covered}) + 1)

\* C21: with an item placed and no overlaps, the compactness score is the
\* summed Bounds volume of the items over the number of voxels of the box
\* enclosing every occupied voxel: above 0 and at most 1.
C21_CompactnessIsFillRatio ==
    (/\ opt.pc = "returned"
     /\ DOMAIN bases["best"].Items # {}
     /\ GridMatchesItems("best") /\ NoOverlap("best"))
        => /\ ret.score.CompactnessScore =
                 RoundFloat((SumOver(DOMAIN bases["best"].Items,
                                     [id \in DOMAIN bases["best"].Items |->
                                         Volume(ItemOf("best", id).Bounds)]) * ScoreUnit)
                            \div EnclosingVoxels("best"))
           /\ ret.score.CompactnessScore > 0
           /\ ret.score.CompactnessScore <= ScoreUnit


\* ---------------------------------------------------------------------------
\* Two calls of OptimizePlacement and the source of math/rand
\* ---------------------------------------------------------------------------

\* the rounds each of the two calls runs: Config.MaxIterations
TwoRounds == 1

\* the seeds of the two calls: Config.RandomSeed
TwoSeeds == {1, 2}

\* The values drawn after a rand.Seed are read up to this position: the last
\* rand.Intn of a call comes after the two values of each of its earlier
\* rounds and the two values of each round of the other call.
MaxDrawn == 4 * TwoRounds - 2

\* the items of the call that is followed through its steps
TwoList ==
    <<Entry("box", "food_box", Box(1, 1, 1), 100), Entry("box2", "food_box", Box(1, 1, 1), 99),
      Entry("pot", "cooking_pot", Box(1, 1, 1), 98)>>

\* Its Configs: at Temperature 0 shouldAccept returns false for a candidate
\* that is not better, whatever rand.Float64 returns, so that the values of
\* rand.Intn are the only ones a result depends on.
TwoConfigs ==
    {[MaxIterations |-> TwoRounds, Temperature |-> 0, CoolingRate |-> RateUnit,
      MinTemperature |-> 0, RandomSeed |-> 1,
      PathfindingWeight |-> (4 * WeightUnit) \div 10,
      EfficiencyWeight |-> (3 * WeightUnit) \div 10,
      CompactnessWeight |-> (3 * WeightUnit) \div 10]}

\* rand.Intn(n) of the source r: the generator is a function of the seed and
\* of the number of values drawn since rand.Seed
Intn(r, n) == r.values[<<r.seed, r.drawn>>] % n

\* one round of the loop with rand.Intn drawn from the source
OptimizeIterateSeeded ==
    /\ LoopContinues(opt)
    /\ opt.items # <<>>
    /\ \E below \in BOOLEAN : OptimizeIterate(Intn(rng, Len(opt.items)) + 1, below)

\* the other optimizer's OptimizePlacement is entered: rand.Seed(config.RandomSeed)
PeerStart(seed) ==
    /\ peer.pc = "idle"
    /\ peer' = [pc |-> "loop", iteration |-> 0]
    /\ rng' = Seed(rng, seed)
    /\ UNCHANGED <<bases, heap, ret, graph, search, opt>>

\* One round of the other call's loop.  Its Bases, items and Graph are its
\* own; of the state both calls can reach it changes the source, from which
\* it draws for rand.Intn, for rand.Float64, or for both.
PeerIterate(draws) ==
    /\ peer.pc = "loop"
    /\ peer.iteration < TwoRounds
    /\ peer' = [peer EXCEPT !.iteration = @ + 1]
    /\ rng' = Drawn(rng, draws)
    /\ UNCHANGED <<bases, heap, ret, graph, search, opt>>

\* the other call returns
PeerReturn ==
    /\ peer.pc = "loop"
    /\ peer.iteration >= TwoRounds
    /\ peer' = [peer EXCEPT !.pc = "returned"]
    /\ UNCHANGED <<bases, heap, ret, graph, search, opt, rng>>

\* The generators of SpecTwo: the value at a position after a seed is a
\* function of the two, here a * seed + b * position modulo the number of
\* items; with a = b = 0 every value drawn is the same.
Generators ==
    {[p \in TwoSeeds \X (0..MaxDrawn) |-> (a * p[1] + b * p[2]) % Len(TwoList)]
     : a, b \in 0..(Len(TwoList) - 1)}

InitTwo ==
    /\ bases = [s \in OptSlots |-> IF s = "orig" THEN NewBase(OptW, OptH, OptD) ELSE NoBase]
    /\ heap = EmptyMap
    /\ ret = [err |-> Nil]
    /\ graph = NewGraph("orig")
    /\ search = IdleSearch
    /\ opt = IdleOpt
    /\ \E values \in Generators : rng = [seed |-> 1, drawn |-> 0, values |-> values]
    /\ peer = IdlePeer

NextTwo ==
    \/ \E config \in TwoConfigs, loopvar \in LoopVarSemantics :
          OptimizeStart(TwoList, config, loopvar)
    \/ OptimizeIterateSeeded
    \/ OptimizeReturn
    \/ \E seed \in TwoSeeds : PeerStart(seed)
    \/ \E draws \in 1..2 : PeerIterate(draws)
    \/ PeerReturn

\* two calls of OptimizePlacement on two optimizers, in any interleaving of
\* their steps
SpecTwo == InitTwo /\ [][NextTwo]_vars

\* what a call returns: the Base by value, the score and the error
Returned(bs, h, o, err) ==
    IF err # Nil THEN [err |-> err]
    ELSE [err |-> Nil, base |-> View(bs, h, "best"), score |-> o.bestScore]

\* the states one round of the loop leads to from the state s of a call,
\* with rand.Intn drawn from the source r
AloneSteps(s, r) ==
    {<<[round EXCEPT !.graph = s.graph], Drawn(r, round.draws)>>
     : round \in OptimizeRound(s.bases, s.heap, s.graph, s.opt,
                               IF s.opt.items = <<>> THEN 1
                               ELSE Intn(r, Len(s.opt.items)) + 1, FALSE)}

\* what the loop returns from n, the state of a call and the source, when
\* no other call draws from the source
RECURSIVE AloneLoop(_)
AloneLoop(n) ==
    IF n[1].err # Nil \/ ~LoopContinues(n[1].opt)
    THEN {Returned(n[1].bases, n[1].heap, n[1].opt, n[1].err)}
    ELSE UNION {AloneLoop(m) : m \in AloneSteps(n[1], n[2])}

\* what OptimizePlacement(list, config) returns on the optimizer of an empty
\* Base when no other call runs between its rand.Seed and its return
AloneOutcomes(values, list, config, loopvar) ==
    LET bs0 == [s \in OptSlots |-> IF s = "orig" THEN NewBase(OptW, OptH, OptD) ELSE NoBase]
        r0 == [seed |-> config.RandomSeed, drawn |-> 0, values |-> values]
    IN  UNION {AloneLoop(n)
               : n \in {<<[bases |-> start.bases, heap |-> start.heap, graph |-> start.graph,
                           opt |-> start.opt, err |-> Nil, draws |-> 0], r0>>
                        : start \in OptimizeEnter(bs0, EmptyMap, NewGraph("orig"), list,
                                                  config, loopvar)}}

\* C22: a call of OptimizePlacement that runs while a call on another
\* optimizer runs returns the Base and the score it returns when it runs
\* alone with the same RandomSeed.
C22_CallsShareNoState ==
    opt.pc = "returned"
        => Returned(bases, heap, opt, ret.err)
               \in AloneOutcomes(rng.values, TwoList, opt.config, opt.loopvar)


\* the scores evaluatePlacement can return for the current layout, the Base
\* the next candidate is cloned from
CurrentScores ==
    {score.TotalScore
     : score \in evaluatePlacement(graph, bases["graph"], bases["optimized"], heap, opt.config)}

\* a round of the loop ran to its end
RoundDone ==
    /\ opt.pc = "loop"
    /\ opt'.pc = "loop"
    /\ opt'.broke \/ opt'.iteration = opt.iteration + 1

\* C23: in every round a candidate whose TotalScore is at least the
\* TotalScore of the current layout, the one it was cloned from, is accepted.
C23_AcceptsAtLeastCurrent ==
    [][(RoundDone /\ \A current \in CurrentScores : opt'.candidateScore.TotalScore >= current)
          => opt'.accepted]_vars


\* C24: a round that rejects its candidate leaves the current layout, the
\* Base the next candidate is cloned from, as it was: its Grid and the Items
\* in it, their Position included.
C24_RejectedRoundKeepsCurrent ==
    [][(RoundDone /\ ~opt'.accepted)
          => View(bases', heap', "optimized") = View(bases, heap, "optimized")]_vars


\* The path queries of the position search in a round that moves the k-th
\* item: calculateBlockingPenalty asks for a path from every position of the
\* candidate that admits the item, the item removed, to the Position of
\* every palbox of the candidate; free is the set of the candidate's free
\* voxels at that time.
PositionQueries(k) ==
    LET queries(b, h, item) ==
            {[start |-> GetFreePositions(b)[i], end |-> h[b.Items[id]].Position,
              free |-> FreeVoxels(b)]
             : i \in Admitting(b, item, GetFreePositions(b)), id \in Palboxes(b, h)}
        removed(candidate, r) ==
            IF r.err = ErrPanic THEN {}
            ELSE queries(r.base, candidate.heap, candidate.heap[opt.items[k]])
        cloned(candidate) ==
            removed(candidate, RemoveItemOp(candidate.base, candidate.heap,
                                            candidate.heap[opt.items[k]].ID))
    IN  cloned(Clone(bases["optimized"], heap, "candidate"))

\* C25: the path queries of a round are answered by the candidate's
\* occupancy: FindPath, which tests the endpoints and the neighbours against
\* the Grid of po.Graph.Base, takes an endpoint for occupied exactly when it
\* is occupied in the candidate.
C25_QueriesUseCandidateOccupancy ==
    LoopContinues(opt)
        => \A k \in 1..Len(opt.items) : \A q \in PositionQueries(k) :
               /\ IsPositionOccupied(PathBase, q.start) <=> q.start \notin q.free
               /\ IsPositionOccupied(PathBase, q.end) <=> q.end \notin q.free


\* position is the first of the free positions of the greatest score among
\* those, given by index in admits, that admit the item
FirstOfGreatestScore(free, admits, score, position) ==
    \E i \in admits :
        /\ free[i] = position
        /\ \A j \in admits : score[j] <= score[i]
        /\ \A j \in admits : j < i => score[j] < score[i]

\* the item of the ID and Position of item is in Items of the Base of r
EnteredAt(r, item) ==
    /\ item.ID \in DOMAIN r.base.Items
    /\ r.heap[r.base.Items[item.ID]].Position = item.Position

\* what the claim asks of the position found for the item at address a in
\* the Base b with the heap h: none exactly when no free position admits
\* the item, otherwise the first admitting position of the greatest score,
\* at which the PlaceItem that follows enters the item
BestPositionAsked(g, gb, b, h, a, position) ==
    LET asked(free, admits) ==
            IF admits = {} THEN position = NoPosition
            ELSE /\ position # NoPosition
                 /\ FirstOfGreatestScore(free, admits,
                        [i \in admits |->
                            evaluateItemPosition(g, gb, b, h, [h[a] EXCEPT !.Position = free[i]])],
                        position)
                 /\ EnteredAt(MoveAndPlace(b, h, a, position),
                              [h[a] EXCEPT !.Position = position])
    IN  asked(GetFreePositions(b), Admitting(b, h[a], GetFreePositions(b)))

\* the position search of the round that moves the k-th item, against what
\* the claim asks of it
RoundSearchAsked(k) ==
    LET searched(b, h) ==
            BestPositionAsked(graph, bases["graph"], b, h, opt.items[k],
                              findBestPosition(graph, bases["graph"], b, h, h[opt.items[k]],
                                               opt.loopvar))
        removed(candidate, r) == r.err = ErrPanic \/ searched(r.base, candidate.heap)
        cloned(candidate) ==
            removed(candidate, RemoveItemOp(candidate.base, candidate.heap,
                                            candidate.heap[opt.items[k]].ID))
    IN  cloned(Clone(bases["optimized"], heap, "candidate"))

\* C26: the position search returns no position exactly when no free
\* position admits the item; otherwise it returns the first position, in
\* scan order, of the greatest score among those that admit it, and the
\* PlaceItem that follows puts the item there.
C26_SearchReturnsFirstBest ==
    LoopContinues(opt) => \A k \in 1..Len(opt.items) : RoundSearchAsked(k)


\* ---------------------------------------------------------------------------
\* The order of the greedy seed: sort.Slice on the caller's slice
\* ---------------------------------------------------------------------------

\* the longest slice package sort sorts by insertion alone
MaxInsertion == 12

\* The orders by Priority, greater first, of the items at the addresses S:
\* every one that is sorted.  Which of them sort.Slice leaves is not fixed
\* for a slice it does not sort by insertion: the sort is not stable, and the
\* algorithm depends on the version of the package.
RECURSIVE OrderedByPriority(_, _)
OrderedByPriority(h, S) ==
    IF S = {} THEN {<<>>}
    ELSE UNION {{<<a>> \o rest : rest \in OrderedByPriority(h, S \ {a})}
                : a \in {x \in S : \A y \in S : h[y].Priority <= h[x].Priority}}

\* sort.Slice(items, func(i, j int) bool { return items[i].Priority >
\* items[j].Priority }): the orders the slice can be left in
SortSlice(h, items) ==
    IF Len(items) <= MaxInsertion THEN {SortByPriority(h, items, Len(items))}
    ELSE OrderedByPriority(h, SeqRange(items))

\* the length of the short lists of SpecSort and their priorities
SortShort == 3
SortPriorities == 1..3

\* an item of SpecSort: the k-th of its list, of priority p
SortEntry(k, p) == Entry(ToString(k), "storage", Box(1, 1, 1), p)

\* The lists of SpecSort: every list of up to SortShort items, and lists of
\* one item more than MaxInsertion in which the priorities fall from the
\* second item on and the first item has the Priority of a later one.
SortLists ==
    UNION {{[k \in 1..n |-> SortEntry(k, f[k])] : f \in [1..n -> SortPriorities]}
           : n \in 0..SortShort}
    \cup {[k \in 1..(MaxInsertion + 1) |->
              SortEntry(k, MaxInsertion + 3 - (IF k = 1 THEN tie ELSE k))]
          : tie \in 2..(MaxInsertion + 1)}

\* the caller's slice of pointers, before OptimizePlacement sorts it
InitSort ==
    /\ bases = [s \in OptSlots |-> IF s = "orig" THEN NewBase(OptW, OptH, OptD) ELSE NoBase]
    /\ \E list \in SortLists :
          /\ heap = [a \in {ItemAddress(list[k]) : k \in DOMAIN list} |->
                        list[CHOOSE k \in DOMAIN list : a = ItemAddress(list[k])]]
          /\ opt = [pc |-> "unsorted", list |-> [k \in DOMAIN list |-> ItemAddress(list[k])]]
    /\ ret = [err |-> Nil]
    /\ graph = NewGraph("orig")
    /\ search = IdleSearch
    /\ rng = Unseeded
    /\ peer = IdlePeer

\* the sort.Slice call of OptimizePlacement; placeItemsGreedy then ranges
\* over the slice in the order it is left in
SortItems ==
    /\ opt.pc = "unsorted"
    /\ \E sorted \in SortSlice(heap, opt.list) :
          opt' = [pc |-> "sorted", list |-> opt.list, items |-> sorted]
    /\ UNCHANGED <<bases, heap, ret, graph, search, rng, peer>>

NextSort == SortItems

\* the order in which the greedy seed takes the items of a list
SpecSort == InitSort /\ [][NextSort]_vars

\* the place of the address a in the slice s
PlaceIn(s, a) == CHOOSE k \in DOMAIN s : s[k] = a

\* C27: the greedy seed takes the items in non-increasing Priority, and
\* items of equal Priority in the order of the caller's list, whatever the
\* length of the list.
C27_GreedyOrderStable ==
    opt.pc = "sorted"
        => \A i, j \in DOMAIN opt.items :
               i < j => \/ heap[opt.items[i]].Priority > heap[opt.items[j]].Priority
                        \/ /\ heap[opt.items[i]].Priority = heap[opt.items[j]].Priority
                           /\ PlaceIn(opt.list, opt.items[i]) < PlaceIn(opt.list, opt.items[j])


\* C28: whatever rand.Intn(len(items)) returns in a round, the item it
\* selects is in Items of the candidate, the clone of the current layout.
C28_PerturbedItemIsPlaced ==
    LoopContinues(opt)
        => \A itemIndex \in 1..Len(opt.items) :
               heap[opt.items[itemIndex]].ID \in DOMAIN bases["optimized"].Items


\* an item the caller placed in the Base before handing the Base to
\* NewPlacementOptimizer: at the zero Position, two voxels wide
HeldItem == Entry("plot", "food_plot", Box(2, 1, 1), 99)

\* the heap that holds the caller's object of HeldItem
HeldHeap == (ItemAddress(HeldItem) :> HeldItem)

\* the lists of SpecHeld: the object the Base holds with a second item, and
\* alone
HeldLists ==
    {<<HeldItem, Entry("pot", "cooking_pot", Box(1, 1, 1), 98)>>,
     <<HeldItem>>}

\* NewPlacementOptimizer(base) on a Base after base.PlaceItem(item)
InitHeld ==
    /\ bases = [s \in OptSlots |->
                   IF s = "orig"
                   THEN PlaceItemOp(NewBase(OptW, OptH, OptD), HeldHeap,
                                    ItemAddress(HeldItem)).base
                   ELSE NoBase]
    /\ heap = HeldHeap
    /\ ret = [err |-> Nil]
    /\ graph = NewGraph("orig")
    /\ search = IdleSearch
    /\ opt = IdleOpt
    /\ rng = Unseeded
    /\ peer = IdlePeer

NextHeld ==
    \/ \E list \in HeldLists, config \in OptConfigs, loopvar \in LoopVarSemantics :
          OptimizeStart(list, config, loopvar)
    \/ \E itemIndex \in 1..MaxItems, below \in BOOLEAN : OptimizeIterate(itemIndex, below)
    \/ OptimizeReturn

\* one call of OptimizePlacement on the optimizer of a Base that holds an
\* item of the caller's list
SpecHeld == InitHeld /\ [][NextHeld]_vars

\* the IDs in Items of the Base in slot s
ItemIDs(bs, s) == DOMAIN bs[s].Items

\* C29: a round loses no item.  Every ID in Items of the candidate before
\* perturbPlacement, the clone of the current layout, is in its Items after
\* it; so the IDs of the current layout are in the next current layout,
\* and the IDs of the best Base, which starts as the greedy seed, are in the
\* next best Base and in the Base that is returned.
C29_RoundLosesNoItem ==
    [][(opt.pc = "loop" /\ opt'.pc \in {"loop", "returned"})
          => /\ RoundDone => ItemIDs(bases, "optimized") \subseteq ItemIDs(bases', "candidate")
             /\ ItemIDs(bases, "optimized") \subseteq ItemIDs(bases', "optimized")
             /\ ItemIDs(bases, "best") \subseteq ItemIDs(bases', "best")]_vars


\* the searches before each neighbor of the loop "for _, neighborPos :=
\* range neighbors" from the k-th on, and the search after the last
RECURSIVE RelaxTrace(_, _, _, _, _, _)
RelaxTrace(s, g, b, current, neighbors, k) ==
    IF k > Len(neighbors) THEN <<s>>
    ELSE LET s2 == RelaxNeighbor(s, g, b, current, neighbors[k])
         IN  IF Strict(s2) THEN <<s>> \o RelaxTrace(s2, g, b, current, neighbors, k + 1)
             ELSE <<s>>

\* The round of "for openSet.Len() > 0" that starts in the search s with
\* the open set not empty: the node popped, its neighbors, and the searches
\* of the loop over the neighbors; no neighbors when the node is the goal.
RoundTrace(s, g, b) ==
    LET traced(popped, neighbors) ==
            [current |-> popped.node, neighbors |-> neighbors,
             searches |-> RelaxTrace([popped.q EXCEPT !.closedSet = @ \cup {popped.node}],
                                     g, b, popped.node, neighbors, 1)]
        round(popped) ==
            traced(popped, IF popped.q.allNodes[popped.node].Position = s.end THEN <<>>
                           ELSE GetNeighbors(g, b, popped.q.allNodes[popped.node].Position))
    IN  round(HeapPop(s))

\* what the body of the loop does with neighborPos in the search s: "skip"
\* for a closed neighbor, "push" for heap.Push, "fix" for heap.Fix, "keep"
\* with no better cost
RelaxKind(s, b, current, neighborPos) ==
    LET neighborKey == GetNodeKey(neighborPos)
        cur == s.allNodes[current]
        tentativeCost == cur.Cost + CalculateEdgeCost(b, cur.Position, neighborPos)
    IN  IF neighborKey \in s.closedSet THEN "skip"
        ELSE IF neighborKey \notin DOMAIN s.allNodes
             THEN IF tentativeCost < Inf THEN "push" ELSE "keep"
             ELSE IF tentativeCost < s.allNodes[neighborKey].Cost THEN "fix" ELSE "keep"

\* the number of entries of the open set of s for the node under key
Entries(s, key) == Cardinality({i \in DOMAIN s.openSet : s.openSet[i] = key})

\* no two entries of the open set are for one position, and every node of
\* the open set has its slot in Index
OpenSetSound(s) ==
    /\ \A i, j \in DOMAIN s.openSet :
          s.allNodes[s.openSet[i]].Position = s.allNodes[s.openSet[j]].Position => i = j
    /\ \A i \in DOMAIN s.openSet : s.allNodes[s.openSet[i]].Index = i - 1

\* the step of the trace t for its k-th neighbor: heap.Fix only for a node
\* in the open set, at its slot; a node seen for the first time has one
\* entry after the step and no other step adds an entry
RelaxStepSound(t, b, k) ==
    LET s == t.searches[k]
        after == t.searches[k + 1]
        neighborKey == GetNodeKey(t.neighbors[k])
        kind == RelaxKind(s, b, t.current, t.neighbors[k])
    IN  /\ kind = "fix" =>
              /\ Entries(s, neighborKey) = 1
              /\ s.allNodes[neighborKey].Index \in 0..(PQLen(s) - 1)
              /\ s.openSet[s.allNodes[neighborKey].Index + 1] = neighborKey
        /\ neighborKey \notin DOMAIN s.allNodes =>
              kind = "push" /\ Entries(s, neighborKey) = 0
        /\ \A key \in DOMAIN after.allNodes :
              Entries(after, key) = IF kind = "push" /\ key = neighborKey THEN 1
                                    ELSE Entries(s, key)

\* the round from the search s is sound in each of its steps
RoundSound(t, b) ==
    /\ Len(t.searches) = Len(t.neighbors) + 1
    /\ \A k \in DOMAIN t.searches : OpenSetSound(t.searches[k])
    /\ \A k \in DOMAIN t.neighbors : RelaxStepSound(t, b, k)

\* C30: during a search the open set holds no two entries for one position,
\* every node of the open set has Index equal to its slot, heap.Fix is
\* applied only to a node that is in the open set, and a node seen for the
\* first time is pushed exactly once; at every point of every round.
C30_OpenSetSound ==
    search.pc = "loop"
        => /\ OpenSetSound(search)
           /\ PQLen(search) > 0 => RoundSound(RoundTrace(search, graph, PathBase), PathBase)

\* a round of a search in which heap.Fix is called for one neighbor and
\* heap.Push for another
C30_Witness ==
    /\ search.pc = "loop"
    /\ PQLen(search) > 1
    /\ LET t == RoundTrace(search, graph, PathBase)
       IN  /\ \E k \in DOMAIN t.neighbors :
                 RelaxKind(t.searches[k], PathBase, t.current, t.neighbors[k]) = "fix"
           /\ \E k \in DOMAIN t.neighbors :
                 RelaxKind(t.searches[k], PathBase, t.current, t.neighbors[k]) = "push"


\* the keys of the nodes in the open set of the search s
OpenKeys(s) == {s.openSet[i] : i \in DOMAIN s.openSet}

\* the search s has passed the two checks FindPath opens with
Searching(s) == s.pc \in {"loop", "done"} /\ s.err \notin {ErrInvalidPosition, ErrPositionOccupied}

\* the number of heap.Pop calls of the search s so far: one for each closed
\* node and one for the goal
Pops(s) == Cardinality(s.closedSet) + (IF s.path = NoPath THEN 0 ELSE 1)

\* every node the search has seen is open or closed, never both, a closed
\* node has left the queue, and the search has popped no more nodes than the
\* Base has free voxels; it ends by popping the goal or with the open set
\* empty
NodesOpenOrClosed(s, b) ==
    /\ s.closedSet \cap OpenKeys(s) = {}
    /\ s.path = NoPath => DOMAIN s.allNodes = s.closedSet \cup OpenKeys(s)
    /\ \A key \in s.closedSet : s.allNodes[key].Index = -1
    /\ \A key \in DOMAIN s.allNodes : s.allNodes[key].Position \in FreeVoxels(b)
    /\ Pops(s) <= Cardinality(FreeVoxels(b))
    /\ s.pc = "done" =>
          \/ /\ s.path # NoPath
             /\ s.path.Nodes[Len(s.path.Nodes)] = s.end
             /\ GetNodeKey(s.end) \notin s.closedSet
          \/ s.path = NoPath /\ s.err = ErrNoPathFound /\ PQLen(s) = 0

\* a round from the search s to the search s2 pops a node that is not
\* closed, closes it unless it is the goal, and leaves every closed node as
\* it is: not in the queue, its Cost, Priority and Parent unchanged
RoundKeepsClosed(s, s2) ==
    /\ s.closedSet \subseteq s2.closedSet
    /\ DOMAIN s.allNodes \subseteq DOMAIN s2.allNodes
    /\ \A key \in s.closedSet : s2.allNodes[key] = s.allNodes[key]
    /\ PQLen(s) > 0 =>
          LET popped == HeapPop(s).node
          IN  /\ popped \notin s.closedSet
              /\ popped \notin OpenKeys(s2)
              /\ Pops(s2) = Pops(s) + 1
              /\ s2.closedSet \subseteq s.closedSet \cup {popped}
    /\ PQLen(s) = 0 => s2.closedSet = s.closedSet /\ s2.pc = "done"

\* in the round that starts in the search s every closed neighbor is passed
\* over: the search is the same before and after its step
ClosedSkipped(t, b) ==
    \A k \in DOMAIN t.neighbors :
        GetNodeKey(t.neighbors[k]) \in t.searches[k].closedSet
            => /\ RelaxKind(t.searches[k], b, t.current, t.neighbors[k]) = "skip"
               /\ t.searches[k + 1] = t.searches[k]

\* C31: within one search a position is unvisited, then open, then closed.
\* A closed position is never pushed, relaxed or popped again, each position
\* is popped at most once, and the search ends after at most as many pops as
\* the Base has free voxels, by popping the goal or with the open set empty:
\* every round of a search pops one node more, or finds the open set empty
\* and ends the search.
C31_UnvisitedOpenClosed ==
    /\ [](Searching(search) =>
             /\ NodesOpenOrClosed(search, PathBase)
             /\ (search.pc = "loop" /\ PQLen(search) > 0)
                    => ClosedSkipped(RoundTrace(search, graph, PathBase), PathBase))
    /\ [][(search.pc = "loop" /\ search'.pc \in {"loop", "done"})
             => RoundKeepsClosed(search, search')]_vars

\* a search that ended with a Path after it closed three nodes, with free
\* voxels it never popped
C31_Witness ==
    /\ search.pc = "done"
    /\ search.path # NoPath
    /\ Cardinality(search.closedSet) >= 3
    /\ Pops(search) < Cardinality(FreeVoxels(PathBase))


\* every unit step between free voxels of b costs at least its length
StepsCostTheirLength(b, costs) ==
    \A e \in DOMAIN costs : costs[e] >= PositionDistance(e[1], e[2])

\* n rounds of relaxing every step towards the goal: d[v] ends as the least
\* summed cost of a sequence of steps from v to the voxel that began with 0,
\* Inf where none is
RECURSIVE LeastCostsTo(_, _, _, _)
LeastCostsTo(b, costs, d, n) ==
    IF n = 0 THEN d
    ELSE LET d2 == [v \in DOMAIN d |->
                      Min({d[v]} \cup {costs[<<v, u>>] + d[u] :
                                          u \in {u \in FreeNeighbours(b, v) : d[u] < Inf}})]
         IN  IF Strict(d2) THEN LeastCostsTo(b, costs, d2, n - 1) ELSE d2

\* the least summed edge cost from every free voxel of b to goal, with the
\* costs of the steps as given
MinCostsTo(b, costs, goal) ==
    LeastCostsTo(b, costs, [v \in FreeVoxels(b) |-> IF v = goal THEN 0 ELSE Inf],
                 Cardinality(FreeVoxels(b)))

\* the least summed edge cost from start to every free voxel of b
MinCostsFrom(b, costs, start) ==
    LeastCosts(b, costs, [v \in FreeVoxels(b) |-> IF v = start THEN 0 ELSE Inf],
               Cardinality(FreeVoxels(b)))

\* the Manhattan estimate from every voxel with a cost to goal in d is at
\* most that cost
EstimateAtMost(d, goal) ==
    \A p \in DOMAIN d : d[p] < Inf => ManhattanDistance(p, goal) <= d[p]

\* the nodes the search s has popped: the closed ones and the goal of a
\* search that returned a Path
PoppedKeys(s) == s.closedSet \cup (IF s.path = NoPath THEN {} ELSE {GetNodeKey(s.end)})

\* every node the search s popped has as Cost the least summed edge cost d
\* gives for its Position.  A closed node keeps the Cost it was popped with.
PoppedCostsLeast(s, d) ==
    \A key \in PoppedKeys(s) : s.allNodes[key].Cost = d[s.allNodes[key].Position]

\* the three parts of the claim for the search s on the Base b, costs the
\* cost of every step
HeuristicSound(s, b, costs) ==
    /\ Strict(costs)
    /\ StepsCostTheirLength(b, costs)
    /\ EstimateAtMost(MinCostsTo(b, costs, s.end), s.end)
    /\ PoppedCostsLeast(s, MinCostsFrom(b, costs, s.start))

\* C32: the Manhattan heuristic never overestimates.  Every edge cost of
\* CalculateEdgeCost is at least 1, the length of the step, so for every
\* occupancy and every free position connected to the goal the estimate is
\* at most the least summed edge cost to the goal; and every node popped
\* from the open set has the least path cost from start as its Cost.
C32_ManhattanNeverOverestimates ==
    (Done /\ Searching(search)) => HeuristicSound(search, PathBase, EdgeCosts(PathBase))

\* a search on a Base with both items placed returned a Path of a Cost
\* above the Manhattan estimate, after it popped a node, not the start,
\* of a Cost above the estimate from start and with nodes left in the open
\* set
C32_Witness ==
    /\ Done /\ search.path # NoPath
    /\ PQLen(search) > 0
    /\ DOMAIN PathBase.Items = PathIDs
    /\ search.path.Cost > ManhattanDistance(search.start, search.end)
    /\ \E key \in search.closedSet :
          /\ search.allNodes[key].Position # search.start
          /\ search.allNodes[key].Cost
                > ManhattanDistance(search.start, search.allNodes[key].Position)


\* no position is twice in the sequence nodes
NoRepeats(nodes) == \A i, j \in DOMAIN nodes : nodes[i] = nodes[j] => i = j

\* C33: a Path FindPath(start, end) returns has Nodes that begin with start
\* and end with end, each next position one unit away on one axis, every
\* position in bounds and unoccupied in the Base of the graph, and none
\* twice; for start = end it is the one position, with Distance 0 and Cost 0.
C33_PathIsFreeWalk ==
    (Done /\ search.path # NoPath)
        => /\ IsFreePath(PathBase, search.path.Nodes, search.start, search.end)
           /\ \A i \in DOMAIN search.path.Nodes :
                 /\ IsPositionValid(PathBase, search.path.Nodes[i])
                 /\ ~IsPositionOccupied(PathBase, search.path.Nodes[i])
           /\ NoRepeats(search.path.Nodes)
           /\ search.start = search.end
                 => /\ search.path.Nodes = <<search.start>>
                    /\ search.path.Distance = 0
                    /\ search.path.Cost = 0

\* FindPath returned a Path of three steps that turns, on a Base with both
\* items placed
C33_Witness ==
    /\ Done /\ search.path # NoPath
    /\ DOMAIN PathBase.Items = PathIDs
    /\ Len(search.path.Nodes) = 4
    /\ \E i \in 3..Len(search.path.Nodes) :
          PositionManhattanDistance(search.path.Nodes[i - 2], search.path.Nodes[i]) = 2
          /\ search.path.Nodes[i - 2].X # search.path.Nodes[i].X
          /\ (search.path.Nodes[i - 2].Y # search.path.Nodes[i].Y
              \/ search.path.Nodes[i - 2].Z # search.path.Nodes[i].Z)


\* the sum of CalculateEdgeCost over the first n - 1 steps of nodes
RECURSIVE StepCostSum(_, _, _)
StepCostSum(b, nodes, n) ==
    IF n <= 1 THEN 0
    ELSE StepCostSum(b, nodes, n - 1) + CalculateEdgeCost(b, nodes[n - 1], nodes[n])

\* C34: the Cost of a returned Path is the sum of CalculateEdgeCost over
\* the consecutive pairs of its Nodes, and is the Cost the search stored
\* on the goal node; its Distance is the number of steps, len(Nodes) - 1.
C34_PathCostIsStepSum ==
    (Done /\ search.path # NoPath)
        => /\ search.path.Cost
                = StepCostSum(PathBase, search.path.Nodes, Len(search.path.Nodes))
           /\ search.path.Cost = search.allNodes[GetNodeKey(search.end)].Cost
           /\ search.path.Distance = CostUnit * (Len(search.path.Nodes) - 1)

\* FindPath returned a Path of two steps or more, one of them vertical,
\* past both items: its Cost is above its Distance
C34_Witness ==
    /\ Done /\ search.path # NoPath
    /\ DOMAIN PathBase.Items = PathIDs
    /\ Len(search.path.Nodes) >= 3
    /\ search.start.Y # search.end.Y
    /\ search.path.Cost > search.path.Distance
    /\ search.path.Cost = search.allNodes[GetNodeKey(search.end)].Cost


(***************************************************************************)
(* Item.Intersects on two Items a caller constructs                        *)
(***************************************************************************)
\* the greatest side of the boxes of SpecBoxes
BoxSide == 2

\* the coordinates of the Positions of SpecBoxes on each axis: at the
\* origin, one beside it, and on X the greatest int
BoxCoords == [X |-> {0, 1, MaxInt}, Y |-> {0, 1}, Z |-> {0, 1}]

\* a coordinate and a side on each axis, the last voxel of the side in the
\* range of int
BoxExtents(coords) == {e \in coords \X (1..BoxSide) : e[1] + e[2] - 1 <= MaxInt}

\* the Items of SpecBoxes: every side at least 1
BoxItems(id) ==
    {NewItem(id, "storage", Pos(x[1], y[1], z[1]), Box(x[2], y[2], z[2]), 1) :
        x \in BoxExtents(BoxCoords.X), y \in BoxExtents(BoxCoords.Y),
        z \in BoxExtents(BoxCoords.Z)}

\* the address of the Item id of SpecBoxes
BoxAddress(id) == <<"new", "boxes", id, 1>>

\* the caller has constructed two Items
InitBoxes ==
    /\ bases = [s \in Slots |-> NoBase]
    /\ \E a \in BoxItems("a"), b \in BoxItems("b") :
          heap = (BoxAddress("a") :> a) @@ (BoxAddress("b") :> b)
    /\ ret = [err |-> Nil]
    /\ graph = NewGraph("orig")
    /\ search = IdleSearch
    /\ opt = IdleOpt
    /\ rng = Unseeded
    /\ peer = IdlePeer

\* a.Intersects(b) and b.Intersects(a) for the two Items
IntersectsCall ==
    /\ "ab" \notin DOMAIN ret
    /\ ret' = [err |-> Nil,
               ab |-> Intersects(heap[BoxAddress("a")], heap[BoxAddress("b")]),
               ba |-> Intersects(heap[BoxAddress("b")], heap[BoxAddress("a")])]
    /\ UNCHANGED <<bases, heap, graph, search, opt, rng, peer>>

NextBoxes == IntersectsCall

\* Intersects on every pair of Items of BoxItems
SpecBoxes == InitBoxes /\ [][NextBoxes]_vars

\* the two boxes meet on a face: on one axis one ends where the other
\* begins
TouchOnFace(a, b) ==
    \/ a.Position.X + a.Bounds.Width = b.Position.X
    \/ b.Position.X + b.Bounds.Width = a.Position.X
    \/ a.Position.Y + a.Bounds.Height = b.Position.Y
    \/ b.Position.Y + b.Bounds.Height = a.Position.Y
    \/ a.Position.Z + a.Bounds.Depth = b.Position.Z
    \/ b.Position.Z + b.Bounds.Depth = a.Position.Z

\* what the claim says of the two results ab and ba of Intersects on the
\* Items a and b
IntersectsIsSharing(a, b, ab, ba) ==
    /\ ab <=> SeqRange(ItemGetOccupiedPositions(a)) \cap SeqRange(ItemGetOccupiedPositions(b)) # {}
    /\ ab = ba
    /\ TouchOnFace(a, b) => ~ab

\* C35: for two items with Bounds of at least 1 on every axis, Intersects
\* holds exactly when their GetOccupiedPositions share a voxel, it is the
\* same in both directions, and boxes that only touch on a face do not
\* intersect.
C35_IntersectsIffShareVoxel ==
    "ab" \in DOMAIN ret
        => IntersectsIsSharing(heap[BoxAddress("a")], heap[BoxAddress("b")], ret.ab, ret.ba)


\* the scores evaluatePlacement can return for the Base of slot s
ScoresOf(s) == evaluatePlacement(graph, bases["graph"], bases[s], heap, opt.config)

\* the caller's call has just entered the loop of OptimizePlacement
LoopEntered == opt.pc = "idle" /\ opt'.pc = "loop"

\* C36: the score OptimizePlacement returns is the greatest TotalScore among
\* the seed layout and every candidate a round evaluated, whatever
\* shouldAccept drew: a candidate above the recorded best is accepted and
\* promoted in its round, nothing else replaces the best, and the returned
\* Base is a copy of the layout that score was computed from.
C36_BestIsMaximum ==
    /\ []((opt.pc \in {"loop", "returned"}) => opt.bestScore \in ScoresOf("best"))
    /\ []((opt.pc = "returned") =>
             /\ ret.err = Nil
             /\ ret.base = "best"
             /\ ret.score = opt.bestScore)
    /\ [][LoopEntered =>
             /\ View(bases', heap', "best") = View(bases', heap', "optimized")
             /\ bases'["best"].Items # bases'["optimized"].Items
                   \/ bases'["best"].Items = EmptyMap]_vars
    /\ [][RoundDone =>
             /\ opt'.bestScore.TotalScore
                   = Max({opt.bestScore.TotalScore, opt'.candidateScore.TotalScore})
             /\ (opt'.candidateScore.TotalScore > opt.bestScore.TotalScore)
                   => /\ opt'.accepted
                      /\ opt'.promoted
             /\ IF opt'.promoted
                THEN /\ opt'.bestScore = opt'.candidateScore
                     /\ View(bases', heap', "best") = View(bases', heap', "candidate")
                ELSE /\ opt'.bestScore = opt.bestScore
                     /\ View(bases', heap', "best") = View(bases, heap, "best")]_vars
    /\ [][(opt.pc = "loop" /\ opt'.pc = "returned") =>
             /\ ret'.score = opt.bestScore
             /\ View(bases', heap', "best") = View(bases, heap, "best")]_vars

\* a call has returned the candidate of its last round, of at least two
\* rounds, with the score that round computed from it
C36_Witness ==
    /\ opt.pc = "returned"
    /\ opt.iteration >= 2
    /\ opt.promoted
    /\ ret.score = opt.candidateScore
    /\ ret.score \in ScoresOf("best")
    /\ View(bases, heap, "best") = View(bases, heap, "candidate")


\* the Item objects Items of the Base in slot s points to
ItemObjects(bs, s) == IF bs[s] = NoBase THEN {} ELSE {bs[s].Items[id] : id \in DOMAIN bs[s].Items}

\* the Item objects of the caller's slice items
InputObjects(o) == SeqRange(o.items)

\* C37: OptimizePlacement leaves po.Base as it was, the Grid and the Items
\* with their Positions, in every step from the call to the return, and the
\* Base it returns holds no Item object of po.Base or of the caller's items.
C37_OwnBaseUntouched ==
    /\ [][(opt.pc \in {"idle", "loop"} /\ opt'.pc \in {"loop", "returned"})
             => View(bases', heap', "orig") = View(bases, heap, "orig")]_vars
    /\ []((opt.pc = "returned") =>
             /\ ret.base = "best"
             /\ ItemObjects(bases, "best") \cap ItemObjects(bases, "orig") = {}
             /\ ItemObjects(bases, "best") \cap InputObjects(opt) = {})


\* C38: a PlaceItem(item) that succeeds on a Base not holding item.ID,
\* followed at once by RemoveItem(item.ID), leaves Grid and Items exactly as
\* they were before the PlaceItem.
C38_PlaceThenRemoveRestores ==
    [][\A s \in Slots, it \in CallerItems :
          (PlaceItem(s, it) /\ it.ID \notin DOMAIN bases[s].Items /\ ret'.err = Nil) =>
             LET r == RemoveItemOp(bases'[s], heap', it.ID)
                 bs == [bases' EXCEPT ![s] = r.base]
             IN  /\ r.err = Nil
                 /\ r.base.Grid = bases[s].Grid
                 /\ r.base.Items = bases[s].Items
                 /\ View(bs, Collect(heap', bs), s) = View(bases, heap, s)
                 /\ Collect(heap', bs) = heap]_vars

\* a PlaceItem has just succeeded on a Base that held the other item, and
\* the RemoveItem of either item gives back a Base that holds one item
C38_Witness ==
    /\ ret.err = Nil
    /\ \E s \in LiveSlots :
          /\ DOMAIN bases[s].Items = IDs
          /\ \A id \in IDs :
                LET r == RemoveItemOp(bases[s], heap, id)
                IN  /\ r.err = Nil
                    /\ r.base.Grid # bases[s].Grid
                    /\ \E v \in DOMAIN r.base.Grid : r.base.Grid[v]

\* C39: after any sequence of PlaceItem, RemoveItem and Clone calls in which
\* no placed Item is written afterwards, no two Items of a Base intersect,
\* by Intersects in either direction and by their footprints, and every
\* footprint voxel of every Item lies in the volume of the Base.
C39_ItemsDisjointInBounds ==
    \A s \in LiveSlots :
        /\ \A i, j \in DOMAIN bases[s].Items :
              i # j => /\ ~Intersects(ItemOf(s, i), ItemOf(s, j))
                       /\ Footprint(ItemOf(s, i)) \cap Footprint(ItemOf(s, j)) = {}
        /\ \A i \in DOMAIN bases[s].Items :
              /\ Footprint(ItemOf(s, i)) \subseteq DOMAIN bases[s].Grid
              /\ \A v \in Footprint(ItemOf(s, i)) : IsPositionValid(bases[s], v)

\* original and clone both hold both items, which meet on a face, and a
\* PlaceItem has just been refused
C39_Witness ==
    /\ ret.err = ErrCannotPlace
    /\ \A s \in Slots :
          /\ bases[s] # NoBase
          /\ DOMAIN bases[s].Items = IDs
          /\ TouchOnFace(ItemOf(s, "a"), ItemOf(s, "b"))

=============================================================================
